---------------------------- MODULE Spec2Model ----------------------------
(***************************************************************************)
(* A state-machine model of the transactional core of mport, the           *)
(* MidnightBSD package manager.                                            *)
(*                                                                         *)
(*   SpecInstall   the three-phase installer (mport_bundle_read_install_pkg*)
(*                 and do_pre_install / do_actual_install /                *)
(*                 do_post_install), with the SQL statements of            *)
(*                 phase 2 as separate steps and a concurrent reader.      *)
(*   SpecList      the installer with mport_pkgmeta_list running in        *)
(*                 another process.                                        *)
(*   SpecUpdate    mport_update and mport_update_primative.                *)
(*   SpecUpgrade   mport_upgrade and mport_update_down, with the ohash     *)
(*                 tables of processed names.                              *)
(*   SpecAutoremove mport_autoremove.                                      *)
(*   SpecLock      two processes that run mutating operations.             *)
(*   SpecExtract   the extraction loop of do_actual_install.               *)
(*   SpecVersion   mport_version_cmp on bounded version strings.           *)
(*   SpecRequire   mport_version_require_check and parse_version.          *)
(*   SpecAssets    the asset walks of the three phases on the file system. *)
(***************************************************************************)
EXTENDS Integers, Sequences, FiniteSets, TLC

VARIABLES
    (* ---- installer (do_pre_install, do_actual_install, do_post_install) *)
    pc,         \* position inside mport_bundle_read_install_pkg
    stub,       \* the rows of the attached stub database of the bundle
    master,     \* the committed rows of the live database (what any reader sees)
    work,       \* the rows as the installer's own connection sees them
    inTxn,      \* TRUE between BEGIN TRANSACTION and COMMIT
    alist,      \* the asset list of the running phase
    cursor,     \* index of the next entry of alist
    phases,     \* the phases started so far, in order
    failed,     \* the phase that failed, or "none"
    failedStep, \* the step of that phase that failed, or "none"
    ret,        \* <<return value>> of mport_bundle_read_install_pkg, <<>> before
    rowInserted,\* TRUE once create_package_row succeeded in this run
    observed    \* the rows of the package a concurrent reader saw last

install_vars == <<pc, stub, master, work, inTxn, alist, cursor, phases, failed, failedStep,
                  ret, rowInserted, observed>>

VARIABLES
    (* ---- mport_update / mport_update_primative ------------------------ *)
    upc,        \* position inside mport_update
    udb,        \* the live database: packages, depends and conflicts rows
    force,      \* mport->force
    pkgs,       \* the packages of the bundle's stub database
    ui,         \* loop index of mport_update_primative
    ulog,       \* what the loop did for each package of the bundle so far
    uret,       \* <<return value>> of mport_update, <<>> before it returns
    bundle      \* the mportBundleRead: "none", "new", "init" or "finished"

update_vars == <<upc, udb, force, pkgs, ui, ulog, uret, bundle>>

VARIABLES
    (* ---- mport_upgrade / mport_update_down ---------------------------- *)
    gpc,          \* position inside mport_upgrade
    rev,          \* the revision of upgrade.c that runs: 2 (with the caches) or 3
    gdb,          \* the live database
    index,        \* the index: entries [pkgname, version, origin]
    moved,        \* the moved table: entries [origin, date, moved_to_pkgname]
    packs_orig,   \* the vector mport_pkgmeta_list returned
    gi,           \* packs - packs_orig, from 1
    h,            \* the hash of processed package names
    index_cache,  \* the hash of index_check_cache_t
    moved_cache,  \* the hash of moved_lookup_cache_t
    stack,        \* the calls of mport_update_down in progress
    trace,        \* the library calls of the run, in order
    updated,      \* int updated
    total,        \* int total
    failures,     \* the calls of mport_update that met a failure so far
    gret          \* <<return value>> of mport_upgrade, <<>> before it returns

upgrade_vars ==
    <<gpc, rev, gdb, index, moved, packs_orig, gi, h, index_cache, moved_cache,
      stack, trace, updated, total, failures, gret>>

VARIABLES
    (* ---- mport_autoremove ---------------------------------------------- *)
    apc,        \* position inside mport_autoremove
    adb,        \* the live database
    adb0,       \* the live database when mport_autoremove was called
    apacks,     \* the vector mport_pkgmeta_list returned
    ai,         \* packs - the start of the vector, from 1
    aspins,     \* the times the loop went round without moving packs
    alog,       \* the calls of mport_delete_primative and how they ended
    aret        \* <<return value>> of mport_autoremove, <<>> before it returns

autoremove_vars == <<apc, adb, adb0, apacks, ai, aspins, alog, aret>>

VARIABLES
    (* ---- two mport processes on one live database ---------------------- *)
    lpc,        \* the position of each process inside its operation
    lop,        \* the operation each process runs
    ldone,      \* the database writes each process has made
    lockfile,   \* the processes that hold the advisory lock
    lwrites     \* the writes that reached the database, in order

lock_vars == <<lpc, lop, ldone, lockfile, lwrites>>

VARIABLES
    (* ---- the extraction loop of do_actual_install ---------------------- *)
    epc,        \* position inside the loop
    eplist,     \* the asset list of the stub database
    earchive,   \* the payload entries of the archive after the stub, in order
    ecursor,    \* index of the next entry of eplist
    epos,       \* index of the next entry of earchive
    ecwd,       \* char cwd[]
    efs,        \* the files on disk: path and the payload written there
    eret        \* <<return value>> of do_actual_install, <<>> before it returns

extract_vars == <<epc, eplist, earchive, ecursor, epos, ecwd, efs, eret>>

VARIABLES
    (* ---- mport_version_cmp --------------------------------------------- *)
    vpc,        \* which comparisons have been made
    va, vb, vc, \* three version strings
    vres        \* the results of the calls of mport_version_cmp made so far

version_vars == <<vpc, va, vb, vc, vres>>

VARIABLES
    (* ---- the asset walks of an install on the file system -------------- *)
    wpc,        \* the phase that runs: "start", "pre", "actual", "post" or "done"
    wroot,      \* mport->root
    wplist,     \* the stub.assets rows of the package
    wlist,      \* the asset list of the running phase
    wcursor,    \* index of the next entry of wlist
    wcwd,       \* char cwd[] of the running phase
    wfile,      \* char file[] of the running phase
    wfs,        \* the files on disk: path and who wrote the file
    wrows,      \* the assets rows inserted into the live database, in order
    wlog,       \* the hooks and commands run and the files written, in order
    wret        \* <<return value>> of the failing or the last phase, <<>> before

assets_vars == <<wpc, wroot, wplist, wlist, wcursor, wcwd, wfile, wfs, wrows, wlog, wret>>

VARIABLES
    (* ---- mport_pkgmeta_list in a second process ------------------------ *)
    qpc,        \* position of the query: "idle", "counted" or "done"
    qlen,       \* int len of mport_pkgmeta_list
    qvec,       \* the cells of the vector written so far, in order
    qret        \* <<return value>> of mport_pkgmeta_list, <<>> before

list_vars == <<qpc, qlen, qvec, qret>>

more_vars == <<autoremove_vars, lock_vars, extract_vars, version_vars, assets_vars, list_vars>>

vars == <<install_vars, update_vars, upgrade_vars, more_vars>>

-----------------------------------------------------------------------------
(* Bounds of the model.                                                    *)

MaxAssets == 3

MaxVersion == 2

MaxDepth == 4

MaxFailures == 2

-----------------------------------------------------------------------------
(* Return codes.                                                           *)

MPORT_OK == 0
MPORT_ERR_FATAL == 1
MPORT_ERR_WARN == 2

MPORT_EXPLICIT == 0
MPORT_AUTOMATIC == 1

MPORT_UNLOCKED == 0
MPORT_LOCKED == 1

-----------------------------------------------------------------------------
(* Asset list entry types used by the installer.                           *)

PreTypes == {"ASSET_CWD", "ASSET_PREEXEC"}

NotActualTypes == {"ASSET_PREEXEC", "ASSET_POSTEXEC", "ASSET_LDCONFIG",
                   "ASSET_LDCONFIG_LINUX"}

PostTypes == {"ASSET_CWD", "ASSET_POSTEXEC", "ASSET_LDCONFIG",
              "ASSET_LDCONFIG_LINUX", "ASSET_GLIB_SCHEMAS", "ASSET_INFO",
              "ASSET_TOUCH"}

FileTypes == {"ASSET_FILE", "ASSET_SAMPLE", "ASSET_SHELL",
              "ASSET_FILE_OWNER_MODE", "ASSET_SAMPLE_OWNER_MODE", "ASSET_INFO"}

(* The entry types the bundles of the model draw their plists from.        *)
PlistTypes == {"ASSET_CWD", "ASSET_PREEXEC", "ASSET_FILE", "ASSET_POSTEXEC"}

RECURSIVE SelectSeq2(_, _)
SelectSeq2(s, T) ==
    IF s = <<>> THEN <<>>
    ELSE IF Head(s).type \in T THEN <<Head(s)>> \o SelectSeq2(Tail(s), T)
         ELSE SelectSeq2(Tail(s), T)

(* mport_bundle_read_get_assetlist: the stub.assets rows of the package,   *)
(* filtered by the phase.                                                  *)
mport_bundle_read_get_assetlist(plist, phase) ==
    CASE phase = "PREINSTALL" -> SelectSeq2(plist, PreTypes)
      [] phase = "ACTUALINSTALL" ->
            SelectSeq2(plist, {e.type : e \in {plist[i] : i \in DOMAIN plist}}
                                 \ NotActualTypes)
      [] phase = "POSTINSTALL" -> SelectSeq2(plist, PostTypes)

-----------------------------------------------------------------------------
(* The live database.  A statement outside a transaction is committed at   *)
(* once (sqlite autocommit); between BEGIN TRANSACTION and COMMIT the       *)
(* writes are visible to the writing connection only.                      *)

EmptyDb ==
    [packages |-> {}, depends |-> {}, categories |-> {}, conflicts |-> {},
     assets |-> <<>>, log |-> <<>>]

(* The database the installs of the model start from: bar is installed.    *)
InitialDb ==
    [EmptyDb EXCEPT !.packages = {[pkg |-> "bar", status |-> "clean"]},
                    !.categories = {[pkg |-> "bar", category |-> "net"]},
                    !.assets = <<[pkg |-> "bar", type |-> "ASSET_FILE", data |-> 1]>>]

(* The rows of package p in database d.                                    *)
RowsOf(d, p) ==
    [packages   |-> {r \in d.packages : r.pkg = p},
     depends    |-> {r \in d.depends : r.pkg = p},
     categories |-> {r \in d.categories : r.pkg = p},
     conflicts  |-> {r \in d.conflicts : r.pkg = p},
     assets     |-> SelectSeq(d.assets, LAMBDA r : r.pkg = p)]

NoRows == RowsOf(EmptyDb, "none")

(* create_package_row: INSERT INTO packages; the status column is not set, *)
(* so the row takes the schema's default, dirty.                           *)
create_package_row(d, p) ==
    [d EXCEPT !.packages = @ \cup {[pkg |-> p, status |-> "dirty"]}]

(* create_depends: INSERT INTO depends SELECT ... FROM stub.depends.       *)
create_depends(d, s) ==
    [d EXCEPT !.depends = @ \cup {[pkg |-> s.pkg, depend_pkgname |-> x] : x \in s.depends}]

(* create_categories: INSERT INTO categories SELECT ... FROM stub.         *)
create_categories(d, s) ==
    [d EXCEPT !.categories = @ \cup {[pkg |-> s.pkg, category |-> x] : x \in s.categories}]

(* create_conflicts: INSERT INTO conflicts SELECT ... FROM stub.           *)
create_conflicts(d, s) ==
    [d EXCEPT !.conflicts = @ \cup {[pkg |-> s.pkg, conflict_pkg |-> x] : x \in s.conflicts}]

(* The assets row do_actual_install inserts for entry e.                   *)
insert_asset(d, p, e) ==
    [d EXCEPT !.assets = Append(@, [pkg |-> p, type |-> e.type, data |-> e.data])]

(* mark_complete: UPDATE packages SET status='clean' WHERE pkg=...         *)
mark_complete(d, p) ==
    [d EXCEPT !.packages =
        {IF r.pkg = p THEN [r EXCEPT !.status = "clean"] ELSE r : r \in @}]

(* mport_pkgmeta_logevent: INSERT INTO log; its result is ignored by every *)
(* caller, so the row is written or not.                                   *)
mport_pkgmeta_logevent(d, p, msg, ok) ==
    IF ok THEN [d EXCEPT !.log = Append(@, [pkg |-> p, msg |-> msg])] ELSE d

-----------------------------------------------------------------------------
(* The installer.                                                          *)

(* The upgrade machine at rest, for the runs of the other machines.        *)
UpgradeIdle ==
    /\ gpc = "idle"
    /\ rev = 2
    /\ gdb = [packages |-> {}, depends |-> {}, conflicts |-> {}]
    /\ index = {}
    /\ moved = {}
    /\ packs_orig = <<>>
    /\ gi = 1
    /\ h = <<>>
    /\ index_cache = <<>>
    /\ moved_cache = <<>>
    /\ stack = <<>>
    /\ trace = <<>>
    /\ updated = 0
    /\ total = 0
    /\ failures = 0
    /\ gret = <<>>

(* The update machine at rest, for the runs of the other machines.         *)
UpdateIdle ==
    /\ upc = "idle"
    /\ udb = [packages |-> {}, depends |-> {}, conflicts |-> {}]
    /\ force = FALSE
    /\ pkgs = <<>>
    /\ ui = 1
    /\ ulog = <<>>
    /\ uret = <<>>
    /\ bundle = "none"

(* mport_autoremove at rest.                                               *)
AutoremoveIdle ==
    /\ apc = "idle"
    /\ adb = [packages |-> {}, depends |-> {}, conflicts |-> {}]
    /\ adb0 = [packages |-> {}, depends |-> {}, conflicts |-> {}]
    /\ apacks = <<>>
    /\ ai = 1
    /\ aspins = 0
    /\ alog = <<>>
    /\ aret = <<>>

(* No process runs an operation.                                           *)
LockIdle ==
    /\ lpc = <<>>
    /\ lop = <<>>
    /\ ldone = <<>>
    /\ lockfile = {}
    /\ lwrites = <<>>

(* The extraction loop at rest.                                            *)
ExtractIdle ==
    /\ epc = "idle"
    /\ eplist = <<>>
    /\ earchive = <<>>
    /\ ecursor = 1
    /\ epos = 1
    /\ ecwd = ""
    /\ efs = {}
    /\ eret = <<>>

(* No version comparison is asked for.                                     *)
VersionIdle ==
    /\ vpc = "idle"
    /\ va = <<>>
    /\ vb = <<>>
    /\ vc = <<>>
    /\ vres = <<>>

(* No asset walk runs.                                                     *)
ListIdle ==
    /\ qpc = "idle"
    /\ qlen = 0
    /\ qvec = <<>>
    /\ qret = <<>>

AssetsIdle ==
    /\ wpc = "idle"
    /\ wroot = <<>>
    /\ wplist = <<>>
    /\ wlist = <<>>
    /\ wcursor = 1
    /\ wcwd = <<>>
    /\ wfile = <<>>
    /\ wfs = {}
    /\ wrows = <<>>
    /\ wlog = <<>>
    /\ wret = <<>>

(* The bundles of the model: package foo with a plist of at most MaxAssets *)
(* entries.                                                                *)
Plists ==
    UNION {[1..n -> PlistTypes] : n \in 0..MaxAssets}

Bundles ==
    {[pkg |-> "foo", depends |-> {"bar"}, categories |-> {"net"},
      conflicts |-> {"baz"},
      assets |-> [i \in DOMAIN pl |-> [type |-> pl[i], data |-> i]]] : pl \in Plists}

(* A write of the installer's connection: committed at once outside a      *)
(* transaction, private to the connection inside one.                      *)
db_do(d) ==
    /\ work' = d
    /\ master' = IF inTxn THEN master ELSE d

(* A wrapper that goes on to the next phase whatever the phase returned.   *)
install_pkg_next_ignoring_errors(phase, ok) ==
    CASE phase = "PREINSTALL" -> "actual"
      [] phase = "ACTUALINSTALL" -> "post"
      [] phase = "POSTINSTALL" -> "done"

(* mport_bundle_read_install_pkg: the phase that follows a phase, or the   *)
(* error return when the phase failed.                                     *)
install_pkg_next(phase, ok) ==
    IF ~ok THEN "error"
    ELSE CASE phase = "PREINSTALL" -> "actual"
           [] phase = "ACTUALINSTALL" -> "post"
           [] phase = "POSTINSTALL" -> "done"

(* The end of a phase inside mport_bundle_read_install_pkg.                *)
PhaseEnds(phase, step) ==
    /\ pc' = install_pkg_next(phase, step = "none")
    /\ failed' = IF step = "none" THEN failed ELSE phase
    /\ failedStep' = IF step = "none" THEN failedStep ELSE step
    /\ ret' = IF pc' = "error" THEN <<MPORT_ERR_FATAL>>
              ELSE IF pc' = "done" THEN <<MPORT_OK>> ELSE ret

(* The steps of do_pre_install that can fail.                              *)
PreSteps(l) ==
    {"mtree", "lua", "pkg-install", "assetlist", "chdir"}
        \cup {"preexec" : i \in {j \in DOMAIN l : l[j].type = "ASSET_PREEXEC"}}

(* do_pre_install: mtree, the lua script, pkg-install PRE-INSTALL and the  *)
(* @preexec commands; nothing is written to the database but the log row.  *)
do_pre_install ==
    /\ pc = "pre"
    /\ phases' = Append(phases, "PREINSTALL")
    /\ LET l == mport_bundle_read_get_assetlist(stub.assets, "PREINSTALL") IN
       \E f \in PreSteps(l) \cup {"none"} : \E logged \in BOOLEAN :
          /\ alist' = l
          /\ cursor' = 1
          /\ IF f = "none"
             THEN db_do(mport_pkgmeta_logevent(work, stub.pkg, "preexec", logged))
             ELSE logged /\ UNCHANGED <<master, work>>
          /\ PhaseEnds("PREINSTALL", f)
    /\ UNCHANGED <<stub, inTxn, rowInserted, observed>>
    /\ UNCHANGED <<update_vars, upgrade_vars, more_vars>>

(* The ERROR label of do_actual_install: no ROLLBACK is issued.            *)
actual_ERROR ==
    /\ PhaseEnds("ACTUALINSTALL", pc)
    /\ UNCHANGED <<stub, master, work, inTxn, alist, cursor, phases, rowInserted, observed>>

(* do_actual_install, up to the asset list: get_file_count and             *)
(* mport_bundle_read_get_assetlist.                                        *)
actual_begin ==
    /\ pc = "actual"
    /\ phases' = Append(phases, "ACTUALINSTALL")
    /\ \E ok \in BOOLEAN :
          IF ok
          THEN /\ alist' = mport_bundle_read_get_assetlist(stub.assets, "ACTUALINSTALL")
               /\ cursor' = 1
               /\ pc' = "create_package_row"
               /\ UNCHANGED <<failed, failedStep, ret>>
          ELSE /\ PhaseEnds("ACTUALINSTALL", "assetlist")
               /\ UNCHANGED <<alist, cursor>>
    /\ UNCHANGED <<stub, master, work, inTxn, rowInserted, observed>>
    /\ UNCHANGED <<update_vars, upgrade_vars, more_vars>>

(* One of the four INSERT statements that precede BEGIN TRANSACTION.       *)
actual_statement(at, d, next) ==
    /\ pc = at
    /\ \/ /\ db_do(d)
          /\ pc' = next
          /\ rowInserted' = (rowInserted \/ at = "create_package_row")
          /\ UNCHANGED <<stub, inTxn, alist, cursor, phases, failed, failedStep, ret, observed>>
       \/ actual_ERROR

actual_create_package_row ==
    /\ actual_statement("create_package_row", create_package_row(work, stub.pkg),
                        "create_depends")
    /\ UNCHANGED <<update_vars, upgrade_vars, more_vars>>

actual_create_depends ==
    /\ actual_statement("create_depends", create_depends(work, stub), "create_categories")
    /\ UNCHANGED <<update_vars, upgrade_vars, more_vars>>

actual_create_categories ==
    /\ actual_statement("create_categories", create_categories(work, stub),
                        "create_conflicts")
    /\ UNCHANGED <<update_vars, upgrade_vars, more_vars>>

actual_create_conflicts ==
    /\ actual_statement("create_conflicts", create_conflicts(work, stub), "prepare")
    /\ UNCHANGED <<update_vars, upgrade_vars, more_vars>>

(* Preparing the INSERT INTO assets statement and chdir to the prefix,     *)
(* then BEGIN TRANSACTION.                                                 *)
actual_begin_transaction ==
    /\ pc = "prepare"
    /\ \/ /\ inTxn' = TRUE
          /\ pc' = "assets"
          /\ UNCHANGED <<stub, master, work, alist, cursor, phases, failed, failedStep,
                         ret, rowInserted, observed>>
       \/ actual_ERROR
    /\ UNCHANGED <<update_vars, upgrade_vars, more_vars>>

(* One iteration of STAILQ_FOREACH: the entry is acted on (chdir, mkdir,   *)
(* extraction, chown, chmod, ...) and its assets row is inserted.          *)
actual_asset ==
    /\ pc = "assets"
    /\ cursor <= Len(alist)
    /\ \/ /\ db_do(insert_asset(work, stub.pkg, alist[cursor]))
          /\ cursor' = cursor + 1
          /\ UNCHANGED <<pc, stub, inTxn, alist, phases, failed, failedStep, ret,
                         rowInserted, observed>>
       \/ actual_ERROR
    /\ UNCHANGED <<update_vars, upgrade_vars, more_vars>>

(* COMMIT, then the "Installed" log event.                                 *)
actual_commit ==
    /\ pc = "assets"
    /\ cursor > Len(alist)
    /\ \/ \E logged \in BOOLEAN :
            /\ work' = mport_pkgmeta_logevent(work, stub.pkg, "Installed", logged)
            /\ master' = work'
            /\ inTxn' = FALSE
            /\ PhaseEnds("ACTUALINSTALL", "none")
            /\ UNCHANGED <<stub, alist, cursor, phases, rowInserted, observed>>
       \/ actual_ERROR
    /\ UNCHANGED <<update_vars, upgrade_vars, more_vars>>

(* The steps of do_post_install that can fail.                             *)
PostSteps(l) ==
    {"assetlist", "chdir", "message", "lua", "pkg-install", "mark_complete"}
        \cup {"postexec" : i \in {j \in DOMAIN l : l[j].type # "ASSET_CWD"}}

(* A do_post_install that marks the package complete before its hooks ran. *)
do_post_install_db_marks_first(d, p, f, logged) ==
    mark_complete(d, p)

(* The database after do_post_install when step f failed ("none": no step  *)
(* failed): mark_complete is its last statement.                           *)
do_post_install_db(d, p, f, logged) ==
    LET d1 == IF f \in {"assetlist", "chdir", "postexec"} THEN d
              ELSE mport_pkgmeta_logevent(d, p, "postexec", logged)
    IN IF f = "none" THEN mark_complete(d1, p) ELSE d1

(* do_post_install: the metafiles, run_postexec, the message, the lua      *)
(* script, pkg-install POST-INSTALL, the services, mark_complete.          *)
do_post_install ==
    /\ pc = "post"
    /\ phases' = Append(phases, "POSTINSTALL")
    /\ LET l == mport_bundle_read_get_assetlist(stub.assets, "POSTINSTALL") IN
       \E f \in PostSteps(l) \cup {"none"} : \E logged \in BOOLEAN :
          /\ alist' = l
          /\ cursor' = 1
          /\ db_do(do_post_install_db(work, stub.pkg, f, logged))
          /\ PhaseEnds("POSTINSTALL", f)
    /\ UNCHANGED <<stub, inTxn, rowInserted, observed>>
    /\ UNCHANGED <<update_vars, upgrade_vars, more_vars>>

(* A concurrent read-only process reads the rows of the package.           *)
reader_observe ==
    /\ observed' = RowsOf(master, stub.pkg)
    /\ observed' # observed
    /\ UNCHANGED <<pc, stub, master, work, inTxn, alist, cursor, phases, failed,
                   failedStep, ret, rowInserted>>
    /\ UNCHANGED <<update_vars, upgrade_vars, more_vars>>

not_list_vars ==
    <<install_vars, update_vars, upgrade_vars, autoremove_vars, lock_vars, extract_vars,
      version_vars, assets_vars>>

(* mport_pkgmeta_count(mport, ALL, NULL): the number of rows of packages, *)
(* selected by a statement of its own, or 0 when the statement failed.     *)
mport_pkgmeta_count(d, ok) == IF ok THEN Cardinality(d.packages) ELSE 0

(* The names of the packages of the installer, in the order of ORDER BY.   *)
PkgOrder == <<"bar", "baz", "foo">>

(* SELECT pkg, version, ... FROM packages ORDER BY pkg, version: the rows  *)
(* the statement steps through.                                            *)
packages_by_pkg(d) ==
    [k \in DOMAIN SelectSeq(PkgOrder, LAMBDA n : \E r \in d.packages : r.pkg = n) |->
        [name |-> SelectSeq(PkgOrder, LAMBDA n : \E r \in d.packages : r.pkg = n)[k]]]

(* populate_vec_from_stmt(ref, len, db, stmt) on the rows of the           *)
(* statement: the cells written to the vector of 1 + len cells, in order,  *)
(* and the return value.  fail = 0: every step succeeded and SQLITE_DONE   *)
(* wrote the null cell; fail = i: populate_meta_from_stmt failed on row i, *)
(* whose cell was written before.  len bounds nothing in the loop.         *)
populate_vec_from_stmt(len, rows, fail) ==
    IF fail = 0
    THEN [vec |-> rows \o <<[name |-> "NULL"]>>, ret |-> MPORT_OK]
    ELSE [vec |-> SubSeq(rows, 1, fail), ret |-> MPORT_ERR_FATAL]

(* mport_pkgmeta_list, lines 321-331, in a process of its own: the count.  *)
list_count ==
    /\ qpc = "idle"
    /\ \E ok \in BOOLEAN :
       \E len \in {mport_pkgmeta_count(master, ok)} :
          /\ qlen' = len
          /\ IF len = 0
             THEN qpc' = "done" /\ qret' = <<MPORT_OK>>
             ELSE qpc' = "counted" /\ UNCHANGED qret
    /\ UNCHANGED qvec
    /\ UNCHANGED not_list_vars

(* mport_pkgmeta_list, lines 333-344: the second statement reads the rows  *)
(* committed by now.                                                       *)
list_fetch ==
    /\ qpc = "counted"
    /\ \E prepared \in BOOLEAN :
          IF prepared
          THEN \E rows \in {packages_by_pkg(master)} :
               \E fail \in 0..Len(rows) :
               \E r \in {populate_vec_from_stmt(qlen, rows, fail)} :
                  /\ qvec' = r.vec
                  /\ qret' = <<r.ret>>
          ELSE /\ qret' = <<MPORT_ERR_FATAL>>
               /\ UNCHANGED qvec
    /\ qpc' = "done"
    /\ UNCHANGED qlen
    /\ UNCHANGED not_list_vars

InitInstall ==
    /\ pc = "pre"
    /\ stub \in Bundles
    /\ master = InitialDb
    /\ work = InitialDb
    /\ inTxn = FALSE
    /\ alist = <<>>
    /\ cursor = 1
    /\ phases = <<>>
    /\ failed = "none"
    /\ failedStep = "none"
    /\ ret = <<>>
    /\ rowInserted = FALSE
    /\ observed = NoRows
    /\ ListIdle
    /\ UpdateIdle
    /\ UpgradeIdle
    /\ AutoremoveIdle /\ LockIdle /\ ExtractIdle /\ VersionIdle /\ AssetsIdle

NextInstall ==
    \/ do_pre_install
    \/ actual_begin
    \/ actual_create_package_row
    \/ actual_create_depends
    \/ actual_create_categories
    \/ actual_create_conflicts
    \/ actual_begin_transaction
    \/ actual_asset
    \/ actual_commit
    \/ do_post_install
    \/ reader_observe

SpecInstall == InitInstall /\ [][NextInstall]_vars

(* The install of a package of one asset, with mport_pkgmeta_list running  *)
(* in another process.                                                     *)
InitList ==
    /\ InitInstall
    /\ Len(stub.assets) = 1

NextList ==
    \/ do_pre_install
    \/ actual_begin
    \/ actual_create_package_row
    \/ actual_create_depends
    \/ actual_create_categories
    \/ actual_create_conflicts
    \/ actual_begin_transaction
    \/ actual_asset
    \/ actual_commit
    \/ do_post_install
    \/ reader_observe
    \/ list_count
    \/ list_fetch

SpecList == InitList /\ [][NextList]_vars

-----------------------------------------------------------------------------
(* Properties of the installer.                                            *)

AllPhases == <<"PREINSTALL", "ACTUALINSTALL", "POSTINSTALL">>

IsPrefix(s, t) ==
    /\ Len(s) <= Len(t)
    /\ \A i \in 1..Len(s) : s[i] = t[i]

(* The rows a complete install of bundle s leaves: the package row, the    *)
(* rows copied from the stub, one assets row per phase-2 entry.            *)
IsComplete(rows, s) ==
    /\ Cardinality(rows.packages) = 1
    /\ rows.depends = {[pkg |-> s.pkg, depend_pkgname |-> x] : x \in s.depends}
    /\ rows.categories = {[pkg |-> s.pkg, category |-> x] : x \in s.categories}
    /\ rows.conflicts = {[pkg |-> s.pkg, conflict_pkg |-> x] : x \in s.conflicts}
    /\ Len(rows.assets) = Len(mport_bundle_read_get_assetlist(s.assets, "ACTUALINSTALL"))

(* C1: if a step of do_actual_install fails after the package row was      *)
(* inserted, the live database holds no row of the package afterwards.     *)
C1_PhaseTwoFailureRollsBack ==
    (failed = "ACTUALINSTALL" /\ rowInserted) => RowsOf(master, stub.pkg) = NoRows

(* C2: a concurrent reader sees none of the package's rows or all of them, *)
(* never the package row or the depends rows without every assets row.     *)
C2_ReaderSeesNoneOrAll ==
    observed = NoRows \/ IsComplete(observed, stub)

C32_InstalledLoggedAfterClean ==
    \A i \in DOMAIN master.log :
       (master.log[i].pkg = stub.pkg /\ master.log[i].msg = "Installed") =>
          \A r \in master.packages : r.pkg = stub.pkg => r.status = "clean"

(* C31: the vector mport_pkgmeta_list fills never holds more records than  *)
(* the count it was allocated for, and its null cell lies inside the       *)
(* 1 + len cells of the allocation, also when the installer of another     *)
(* process commits rows between the count and the fetch.                   *)
C31_VectorFitsAllocation ==
    /\ Len(SelectSeq(qvec, LAMBDA c : c.name # "NULL")) <= qlen
    /\ Len(qvec) <= 1 + qlen


(***************************************************************************)
(* mport_update and mport_update_primative.                                *)
(* The live database of this machine is udb: packages rows                 *)
(* [pkg, version, prefix, automatic, locked], depends rows                 *)
(* [pkg, depend_pkgname, depend_pkgversion] and conflicts rows             *)
(* [pkg, conflict_pkg].  Versions are the integers 1..MaxVersion.          *)
(***************************************************************************)

Prefixes == {"/usr/local", "/opt"}

(* mport_pkgmeta_search_master(..., "pkg=%Q", name): the installed rows.   *)
mport_pkgmeta_search_master(d, name) == {r \in d.packages : r.pkg = name}

(* The stub package with the flags mport_pkgmeta_read_stub gave it.        *)
retain_flags_of_stub(d, p) == p

(* Lines 64-72: the automatic and locked flags of the installed row        *)
(* replace those of the stub package.                                      *)
retain_flags(d, p) ==
    IF mport_pkgmeta_search_master(d, p.name) = {} THEN p
    ELSE LET old == CHOOSE r \in mport_pkgmeta_search_master(d, p.name) : TRUE
         IN  [p EXCEPT !.automatic = old.automatic, !.locked = old.locked]

(* mport_lock_islocked.                                                    *)
mport_lock_islocked(p) == IF p.locked = MPORT_LOCKED THEN MPORT_LOCKED ELSE MPORT_UNLOCKED

(* Lines 80-82: the prechecks asked for.                                   *)
precheck_flag(f) ==
    {"MPORT_PRECHECK_CONFLICTS", "MPORT_PRECHECK_DEPENDS"}
        \cup (IF f THEN {} ELSE {"MPORT_PRECHECK_UPGRADEABLE"})

(* mport_check_preconditions: it reads the live database and writes        *)
(* nothing; the result is ok or the precheck that failed.                  *)
mport_check_preconditions(d, p, flag) ==
    IF /\ "MPORT_PRECHECK_UPGRADEABLE" \in flag
       /\ \E r \in d.packages : r.pkg = p.name /\ r.version >= p.version
    THEN "not_upgradeable"
    ELSE IF /\ "MPORT_PRECHECK_CONFLICTS" \in flag
            /\ \E c \in d.conflicts : c.conflict_pkg = p.name
    THEN "conflict"
    ELSE IF /\ "MPORT_PRECHECK_DEPENDS" \in flag
            /\ \E dep \in p.depends :
                  ~ \E r \in d.packages : r.pkg = dep.name /\ r.version >= dep.version
    THEN "depend_missing"
    ELSE "ok"

(* set_prefix_to_installed: the prefix of the installed row, or a fatal    *)
(* error when the package has no row.                                      *)
set_prefix_to_installed(d, p) ==
    IF mport_pkgmeta_search_master(d, p.name) = {}
    THEN [res |-> "fatal", pkg |-> p]
    ELSE LET old == CHOOSE r \in mport_pkgmeta_search_master(d, p.name) : TRUE
         IN  [res |-> "ok", pkg |-> [p EXCEPT !.prefix = old.prefix]]

(* The rows of package name removed from d.                                *)
delete_rows(d, name) ==
    [packages  |-> {r \in d.packages : r.pkg # name},
     depends   |-> {r \in d.depends : r.pkg # name},
     conflicts |-> {r \in d.conflicts : r.pkg # name}]

(* The rows of package p added to d.                                       *)
install_rows(d, p) ==
    [packages  |-> d.packages \cup
                     {[pkg |-> p.name, version |-> p.version, prefix |-> p.prefix,
                       automatic |-> p.automatic, locked |-> p.locked]},
     depends   |-> d.depends \cup
                     {[pkg |-> p.name, depend_pkgname |-> dep.name,
                       depend_pkgversion |-> dep.version] : dep \in p.depends},
     conflicts |-> d.conflicts]

UpdatePkgOutcomes == {"ok", "delete_failed", "install_failed"}

(* mport_bundle_read_update_pkg: delete the installed package, then        *)
(* install the one of the bundle.                                          *)
mport_bundle_read_update_pkg(d, p, outcome) ==
    IF outcome = "delete_failed" THEN [res |-> "fatal", db |-> d]
    ELSE IF outcome = "install_failed" THEN [res |-> "fatal", db |-> delete_rows(d, p.name)]
    ELSE [res |-> "ok", db |-> install_rows(delete_rows(d, p.name), p)]

(* A condition that evaluates set_prefix_to_installed whatever the         *)
(* precheck returned.                                                      *)
ran_set_prefix_always(pre) == TRUE

(* Lines 84-88: || evaluates set_prefix_to_installed only when the         *)
(* precheck returned MPORT_OK ...                                          *)
ran_set_prefix(pre) == pre = "ok"

(* ... and mport_bundle_read_update_pkg only when both before it did.      *)
ran_update_pkg(pre, sp) == ran_set_prefix(pre) /\ sp = "ok"

(* One iteration of the loop of mport_update_primative (lines 60-92) for   *)
(* stub package p0 on database d: the database it leaves and the record    *)
(* of what ran.                                                            *)
update_primative_pkg(d, p0, f, outcome) ==
    LET p1  == retain_flags(d, p0)
        pre == mport_check_preconditions(d, p1, precheck_flag(f))
        sp  == set_prefix_to_installed(d, p1)
        spr == IF ran_set_prefix(pre) THEN sp.res ELSE "skipped"
        up  == mport_bundle_read_update_pkg(d, sp.pkg, outcome)
        upr == IF ran_update_pkg(pre, spr) THEN up.res ELSE "skipped"
    IN  IF mport_lock_islocked(p1) = MPORT_LOCKED
        THEN [db |-> d,
              log |-> [pkg |-> p0.name, islocked |-> TRUE, pre |-> "skipped",
                       set_prefix |-> "skipped", update_pkg |-> "skipped",
                       before |-> d, after |-> d]]
        ELSE LET d2 == IF upr = "skipped" THEN d ELSE up.db
             IN  [db |-> d2,
                  log |-> [pkg |-> p0.name, islocked |-> FALSE, pre |-> pre,
                           set_prefix |-> spr, update_pkg |-> upr,
                           before |-> d, after |-> d2]]

(* mport_update returns with code c.                                       *)
update_return(c) ==
    /\ upc' = "done"
    /\ uret' = <<c>>

(* The calls of lines 47-57 that can fail.                                 *)
OpenOutcomes ==
    {"ok", "mport_bundle_read_new", "mport_bundle_read_init",
     "mport_bundle_read_prep_for_install", "mport_pkgmeta_read_stub"}

(* The mportBundleRead at the return of lines 47-57 when call o failed     *)
(* ("ok": none did): no path of these lines calls mport_bundle_read_finish.*)
bundle_after_open(o) ==
    IF o = "mport_bundle_read_new" THEN "none"
    ELSE IF o = "mport_bundle_read_init" THEN "new"
    ELSE "init"

(* mport_update, line 460: mport_download.                                 *)
update_download ==
    /\ upc = "download"
    /\ \E ok \in BOOLEAN :
          IF ok THEN upc' = "open" /\ UNCHANGED uret
          ELSE update_return(MPORT_ERR_FATAL)
    /\ UNCHANGED <<udb, force, pkgs, ui, ulog, bundle>>
    /\ UNCHANGED <<install_vars, upgrade_vars, more_vars>>

(* mport_update_primative, lines 47-57: the bundle is opened, attached     *)
(* and its stub read; a failure is returned through mport_update.          *)
update_open ==
    /\ upc = "open"
    /\ \E o \in OpenOutcomes :
          /\ bundle' = bundle_after_open(o)
          /\ IF o = "ok" THEN upc' = "loop" /\ UNCHANGED uret
             ELSE update_return(MPORT_ERR_FATAL)
    /\ UNCHANGED <<udb, force, pkgs, ui, ulog>>
    /\ UNCHANGED <<install_vars, upgrade_vars, more_vars>>

(* mport_update_primative, lines 60-92: one iteration; the error of the    *)
(* iteration is reported through the message callback and cleared.         *)
update_loop ==
    /\ upc = "loop"
    /\ ui <= Len(pkgs)
    /\ \E outcome \in UpdatePkgOutcomes :
          LET r == update_primative_pkg(udb, pkgs[ui], force, outcome)
          IN  /\ udb' = r.db
              /\ ulog' = Append(ulog, r.log)
    /\ ui' = ui + 1
    /\ UNCHANGED <<upc, force, pkgs, uret, bundle>>
    /\ UNCHANGED <<install_vars, upgrade_vars, more_vars>>

(* mport_update_primative, lines 94-99, and the return of mport_update.    *)
update_finish ==
    /\ upc = "loop"
    /\ ui > Len(pkgs)
    /\ \E ok \in BOOLEAN :
          update_return(IF ok THEN MPORT_OK ELSE MPORT_ERR_FATAL)
    /\ bundle' = "finished"
    /\ UNCHANGED <<udb, force, pkgs, ui, ulog>>
    /\ UNCHANGED <<install_vars, upgrade_vars, more_vars>>

(* The installed packages the updates of the model start from.             *)
InstalledFoo ==
    {{}} \cup {{[pkg |-> "foo", version |-> v, prefix |-> pf, automatic |-> a, locked |-> l]} :
                 v \in 1..MaxVersion, pf \in Prefixes,
                 a \in {MPORT_EXPLICIT, MPORT_AUTOMATIC}, l \in {MPORT_UNLOCKED, MPORT_LOCKED}}

InstalledBar ==
    {{}} \cup {{[pkg |-> "bar", version |-> v, prefix |-> "/usr/local",
                 automatic |-> MPORT_AUTOMATIC, locked |-> MPORT_UNLOCKED]} : v \in 1..MaxVersion}

InstalledBaz ==
    {[packages |-> {}, conflicts |-> {}]} \cup
    {[packages |-> {[pkg |-> "baz", version |-> 1, prefix |-> "/usr/local",
                     automatic |-> MPORT_EXPLICIT, locked |-> MPORT_UNLOCKED]},
      conflicts |-> c] : c \in {{}, {[pkg |-> "baz", conflict_pkg |-> "foo"]}}}

(* The packages mport_pkgmeta_read_stub returns: automatic and locked are  *)
(* selected as 0.                                                          *)
StubPkg(name, v, deps) ==
    [name |-> name, version |-> v, prefix |-> "/usr/local",
     automatic |-> MPORT_EXPLICIT, locked |-> MPORT_UNLOCKED, depends |-> deps]

UpdateBundles ==
    {<<StubPkg("foo", v, {[name |-> "bar", version |-> m]})>> : v \in 1..MaxVersion, m \in 1..MaxVersion}
    \cup
    {<<StubPkg("bar", w, {}), StubPkg("foo", v, {[name |-> "bar", version |-> w]})>> :
        v \in 1..MaxVersion, w \in 1..MaxVersion}

InstallIdle ==
    /\ pc = "idle"
    /\ stub = [pkg |-> "none"]
    /\ master = EmptyDb
    /\ work = EmptyDb
    /\ inTxn = FALSE
    /\ alist = <<>>
    /\ cursor = 1
    /\ phases = <<>>
    /\ failed = "none"
    /\ failedStep = "none"
    /\ ret = <<>>
    /\ rowInserted = FALSE
    /\ observed = NoRows
    /\ ListIdle

InitUpdate ==
    /\ InstallIdle
    /\ UpgradeIdle
    /\ AutoremoveIdle /\ LockIdle /\ ExtractIdle /\ VersionIdle /\ AssetsIdle
    /\ bundle = "none"
    /\ upc = "download"
    /\ \E f \in InstalledFoo, b \in InstalledBar, z \in InstalledBaz :
          udb = [packages |-> f \cup b \cup z.packages, depends |-> {}, conflicts |-> z.conflicts]
    /\ force \in BOOLEAN
    /\ pkgs \in UpdateBundles
    /\ ui = 1
    /\ ulog = <<>>
    /\ uret = <<>>

NextUpdate ==
    \/ update_download
    \/ update_open
    \/ update_loop
    \/ update_finish

SpecUpdate == InitUpdate /\ [][NextUpdate]_vars

(* C5: in mport_update_primative, when the precondition check fails for a  *)
(* package of the bundle, neither set_prefix_to_installed nor              *)
(* mport_bundle_read_update_pkg runs for that package, and the rows of     *)
(* the live database are the same before and after the iteration.          *)
C5_PrecheckFailureChangesNothing ==
    \A i \in 1..Len(ulog) :
        (~ulog[i].islocked /\ ulog[i].pre # "ok") =>
            /\ ulog[i].set_prefix = "skipped"
            /\ ulog[i].update_pkg = "skipped"
            /\ ulog[i].after = ulog[i].before

(* An iteration whose precheck failed, after an iteration that changed the *)
(* database.                                                               *)
C5_Witness ==
    /\ Len(ulog) = 2
    /\ ulog[1].update_pkg = "ok"
    /\ ulog[1].after # ulog[1].before
    /\ ~ulog[2].islocked
    /\ ulog[2].pre \in {"not_upgradeable", "conflict", "depend_missing"}

(* C6: when a package fails a precheck during an update, mport_update      *)
(* does not return success.                                                *)
C6_PrecheckErrorIsReturned ==
    uret = <<MPORT_OK>> =>
        \A i \in 1..Len(ulog) : ulog[i].islocked \/ ulog[i].pre = "ok"


(***************************************************************************)
(* mport_upgrade and mport_update_down.                                    *)
(***************************************************************************)

(* The installed packages of the upgrade runs and the package a moved or   *)
(* renamed port is replaced by.                                            *)
Installed == {"a", "b", "c"}

NewName == "d"

Origin == [n \in Installed |-> IF n = "a" THEN "x/a" ELSE IF n = "b" THEN "x/b" ELSE "x/c"]

(* The bytes of the strings the hash tables are asked for.                 *)
KeyBytes(k) ==
    CASE k = "a" -> <<97>>
      [] k = "b" -> <<98>>
      [] k = "c" -> <<99>>
      [] k = "d" -> <<100>>
      [] k = "x/a" -> <<120, 47, 97>>
      [] k = "x/b" -> <<120, 47, 98>>
      [] k = "x/c" -> <<120, 47, 99>>

RECURSIVE Xor(_, _)
Xor(x, y) ==
    IF x = 0 THEN y
    ELSE IF y = 0 THEN x
    ELSE 2 * Xor(x \div 2, y \div 2) + ((x + y) % 2)

(* ohash_interval: k = *s++; while (s != e) k = ((k << 2) | (k >> 30)) ^   *)
(* *s++, on 32 bits.                                                       *)
RECURSIVE ohash_interval_from(_, _, _)
ohash_interval_from(bytes, n, k) ==
    IF n > Len(bytes) THEN k
    ELSE ohash_interval_from(bytes, n + 1,
             Xor((k % 1073741824) * 4 + (k \div 1073741824), bytes[n]))

ohash_interval(key) ==
    IF Len(KeyBytes(key)) = 0 THEN 0
    ELSE ohash_interval_from(KeyBytes(key), 2, KeyBytes(key)[1])

(* ohash_init(&h, 6, &info): 1 << 6 slots, all empty.                      *)
OhashSize == 64

NullP ==
    [used |-> FALSE, key |-> "", own |-> 0, live |-> TRUE,
     result |-> 0, entries |-> {}, cached |-> FALSE]

ohash_init == [t |-> [i \in 0..(OhashSize - 1) |-> [hv |-> 0, p |-> NullP]], total |-> 0]

(* A pointer to a package name: own is 0 for a name that lives to the end  *)
(* of the run, and the depth of the mport_update_down call that got the    *)
(* name from mport_pkgmeta_get_downdepends otherwise.                      *)
NameP(name, own) ==
    [used |-> TRUE, key |-> name, own |-> own, live |-> TRUE,
     result |-> 0, entries |-> {}, cached |-> FALSE]

(* A pointer to an index_check_cache_t { int result; bool cached; }: the   *)
(* bytes at key offset 0 are those of result.                              *)
IndexCacheP(result) ==
    [used |-> TRUE, key |-> IF result = 0 THEN "" ELSE IF result = 1 THEN "\\x01" ELSE "\\x02",
     own |-> 0, live |-> TRUE, result |-> result, entries |-> {}, cached |-> TRUE]

(* A pointer to a moved_lookup_cache_t { entries; bool cached; }: the      *)
(* bytes at key offset 0 are those of the entries pointer.                 *)
MovedCacheP(entries) ==
    [used |-> TRUE, key |-> IF entries = {} THEN "" ELSE "\\xptr",
     own |-> 0, live |-> TRUE, result |-> 0, entries |-> entries, cached |-> TRUE]

(* The strcmp of ohash_qlookup against the record in a slot; stale is the  *)
(* outcome of comparing with memory that was freed.                        *)
ohash_keyeq(p, key, stale) == IF p.live THEN p.key = key ELSE stale

RECURSIVE ohash_probe(_, _, _, _, _, _)
ohash_probe(t, key, hv, i, incr, stale) ==
    IF ~t[i].p.used THEN i
    ELSE IF t[i].hv = hv /\ ohash_keyeq(t[i].p, key, stale) THEN i
    ELSE ohash_probe(t, key, hv, (i + incr) % OhashSize, incr, stale)

(* ohash_qlookup: the slot of the record with this key, or the empty slot  *)
(* where it would go; the hash value is stored in an empty slot.           *)
ohash_qlookup(tab, key, stale) ==
    LET hv   == ohash_interval(key)
        incr == ((hv % (OhashSize - 2)) \div 2) * 2 + 1
        i    == ohash_probe(tab.t, key, hv, hv % OhashSize, incr, stale)
    IN  [slot |-> i,
         tab |-> IF tab.t[i].p.used THEN tab ELSE [tab EXCEPT !.t[i].hv = hv]]

ohash_find(tab, slot) == tab.t[slot].p

(* ohash_insert: the record goes into the slot it is given.                *)
ohash_insert(tab, slot, p) == [tab EXCEPT !.t[slot].p = p, !.total = @ + 1]

(* The names a lookup in h finds.                                          *)
ohash_has(tab, key, stale) == ohash_find(tab, ohash_qlookup(tab, key, stale).slot).used


(* The order of the package names, for ORDER BY pkg.                       *)
NameOrder == <<"a", "b", "c", "d">>

(* The mportPackageMeta of a packages row; own says which vector holds it. *)
pkgmeta(r, own) ==
    [name |-> r.pkg, version |-> r.version,
     origin |-> IF r.pkg \in Installed THEN Origin[r.pkg] ELSE "",
     automatic |-> r.automatic, own |-> own]

(* The vector of the rows whose names are in S, in name order.             *)
pkgmeta_vec(d, S, own) ==
    LET names == SelectSeq(NameOrder, LAMBDA n : n \in S /\ \E r \in d.packages : r.pkg = n)
    IN  [k \in 1..Len(names) |->
            pkgmeta(CHOOSE r \in d.packages : r.pkg = names[k], own)]

(* mport_pkgmeta_list: SELECT ... FROM packages ORDER BY pkg, version.     *)
mport_pkgmeta_list(d) == pkgmeta_vec(d, {r.pkg : r \in d.packages}, 0)

(* mport_pkgmeta_get_downdepends: NULL when the package has no depends     *)
(* rows, and otherwise the installed packages its depends rows name.       *)
mport_pkgmeta_get_downdepends(d, pack, own) ==
    LET rows == {r \in d.depends : r.pkg = pack.name}
    IN  IF rows = {} THEN [null |-> TRUE, vec |-> <<>>]
        ELSE [null |-> FALSE,
              vec |-> pkgmeta_vec(d, {r.depend_pkgname : r \in rows}, own)]

(* mport_index_check: 1 when the index has a greater version of the name,  *)
(* 2 when it has the origin under another name only, 0 otherwise.          *)
mport_index_check(pack) ==
    IF \E e \in index : e.pkgname = pack.name
    THEN IF \E e \in index : e.pkgname = pack.name /\ e.version > pack.version
         THEN 1 ELSE 0
    ELSE IF \E e \in index : e.origin = pack.origin THEN 2 ELSE 0

(* mport_index_lookup_pkgname as mport_upgrade calls it, with the origin.  *)
mport_index_lookup_pkgname(origin) == {e \in index : e.origin = origin}

(* mport_moved_lookup.                                                     *)
mport_moved_lookup(origin) == {e \in moved : e.origin = origin}

(* An entry of the trace.                                                  *)
Ev(ev, name, pass) == [ev |-> ev, name |-> name, pass |-> pass]

(* The state the steps of the run work on.                                 *)
Run ==
    [db |-> gdb, h |-> h, ic |-> index_cache, mc |-> moved_cache,
     tr |-> trace, fails |-> failures]

Commit(s) ==
    /\ gdb' = s.db
    /\ h' = s.h
    /\ index_cache' = s.ic
    /\ moved_cache' = s.mc
    /\ trace' = s.tr
    /\ failures' = s.fails

(* v bound to a value for the body F.                                      *)
Bind(v, F(_)) == CHOOSE r \in {F(x) : x \in {v}} : TRUE

(* mport_delete_primative(mport, pack, true).                              *)
mport_delete_primative(s, name, pass) ==
    [s EXCEPT !.db = delete_rows(@, name), !.tr = Append(@, Ev("delete", name, pass))]

(* mport_install_single(mport, name, NULL, NULL, automatic).               *)
mport_install_single(s, name, automatic, pass) ==
    LET avail == {e \in index : e.pkgname = name}
    IN  IF avail = {} \/ \E r \in s.db.packages : r.pkg = name
        THEN [s EXCEPT !.tr = Append(@, Ev("install", name, pass))]
        ELSE [s EXCEPT !.tr = Append(@, Ev("install", name, pass)),
                       !.db = install_rows(@,
                                 [StubPkg(name, (CHOOSE x \in avail : TRUE).version, {})
                                     EXCEPT !.automatic = automatic])]

(* ohash_insert(&h, slot, name).                                           *)
record(s, slot, p, pass) ==
    [s EXCEPT !.h = ohash_insert(@, slot, p), !.tr = Append(@, Ev("record", p.key, pass))]

(* The outcomes of one call of mport_update.                               *)
UpgradeOutcomes == {"ok", "download_failed"}

(* The depends of the bundle the index has for name.                       *)
bundle_depends(d, name) ==
    {[name |-> r.depend_pkgname, version |-> r.depend_pkgversion] :
        r \in {x \in d.depends : x.pkg = name}}

(* mport_update(mport, name): the download of the bundle of the index,     *)
(* then mport_update_primative on it.                                      *)
mport_update(s, name, outcome, pass) ==
    LET avail == {e \in index : e.pkgname = name}
    IN  IF outcome = "download_failed" \/ avail = {}
        THEN [ret |-> MPORT_ERR_FATAL,
              s |-> [s EXCEPT !.tr = Append(@, Ev("update", name, pass)),
                              !.fails = IF outcome = "ok" THEN @ ELSE @ + 1]]
        ELSE Bind(update_primative_pkg(s.db,
                      StubPkg(name, (CHOOSE x \in avail : TRUE).version,
                              bundle_depends(s.db, name)),
                      FALSE, outcome),
                  LAMBDA r :
                    [ret |-> MPORT_OK,
                     s |-> [s EXCEPT !.db = r.db,
                                     !.tr = IF r.log.update_pkg = "ok"
                                            THEN @ \o <<Ev("update", name, pass),
                                                        Ev("upgraded", name, pass)>>
                                            ELSE Append(@, Ev("update", name, pass))]])

(* Revision 2: the index check behind the index_cache hash.                *)
index_check_cached(s, pack, stale, pass) ==
    Bind(ohash_qlookup(s.ic, pack.name, stale), LAMBDA q :
      Bind(ohash_find(q.tab, q.slot), LAMBDA cached :
        IF cached.used /\ cached.cached
        THEN [match |-> cached.result, s |-> [s EXCEPT !.ic = q.tab]]
        ELSE Bind(mport_index_check(pack), LAMBDA match :
               [match |-> match,
                s |-> [s EXCEPT !.ic = ohash_insert(q.tab, q.slot, IndexCacheP(match)),
                                !.tr = Append(@, Ev("check", pack.name, pass))]])))

(* Revision 3: mport_index_check at every place.                           *)
index_check_plain(s, pack, pass) ==
    [match |-> mport_index_check(pack),
     s |-> [s EXCEPT !.tr = Append(@, Ev("check", pack.name, pass))]]

index_check(s, pack, stale, pass) ==
    IF rev = 2 THEN index_check_cached(s, pack, stale, pass)
    ELSE index_check_plain(s, pack, pass)

(* The lookup of a name in h, as every loop does it first.                 *)
h_lookup(s, name, stale) ==
    Bind(ohash_qlookup(s.h, name, stale), LAMBDA q :
      [slot |-> q.slot, key |-> ohash_find(q.tab, q.slot), s |-> [s EXCEPT !.h = q.tab]])

(* What the user does at the prompt of mport_default_confirm_cb: the       *)
(* environment answers for him, he hits return, or he types y or n.        *)
ConfirmInputs == {"ASSUME_ALWAYS_YES", "return", "y", "n"}

(* mport_default_confirm_cb(msg, yes, no, def).                            *)
mport_default_confirm_cb(input, def) ==
    IF input = "ASSUME_ALWAYS_YES" THEN MPORT_OK
    ELSE IF input = "return" THEN (IF def = 1 THEN MPORT_OK ELSE -1)
    ELSE IF input = "y" THEN MPORT_OK
    ELSE -1

(* The answers of mport->confirm_cb called with default def.               *)
ConfirmAnswers(def) == {mport_default_confirm_cb(input, def) : input \in ConfirmInputs}

(* The call of mport->confirm_cb about package name and its answer.        *)
prompt(s, name, confirm, pass) ==
    [s EXCEPT !.tr = Append(@, Ev(IF confirm = MPORT_OK THEN "confirm_yes" ELSE "confirm_no",
                                  name, pass))]

(* The expired branch with the test of the answer turned round.            *)
moved_expired_inverted(s, pk, slot, confirm) ==
    Bind(prompt(s, pk.name, confirm, "moved"), LAMBDA s0 :
      IF confirm # MPORT_OK
      THEN Bind(mport_delete_primative(s0, pk.name, "moved"), LAMBDA s1 :
             record(s1, slot, NameP(pk.name, 0), "moved"))
      ELSE s0)

(* The expired branch of the moved/expired loop, with the slot it has.     *)
moved_expired(s, pk, slot, confirm) ==
    Bind(prompt(s, pk.name, confirm, "moved"), LAMBDA s0 :
      IF confirm = MPORT_OK
      THEN Bind(mport_delete_primative(s0, pk.name, "moved"), LAMBDA s1 :
             record(s1, slot, NameP(pk.name, 0), "moved"))
      ELSE s0)

(* The delete and install of a moved package.                              *)
moved_migrate(s, pk, new) ==
    Bind(mport_delete_primative(s, pk.name, "moved"), LAMBDA s1 :
      mport_install_single(s1, new, pk.automatic, "moved"))

(* Revision 2, the inserts after a migration: the old name at the slot of  *)
(* the lookup in moved_cache, the new name at its slot in h.               *)
moved_record_cached(s, pk, slot, new, stale) ==
    Bind(record(s, slot, NameP(pk.name, 0), "moved"), LAMBDA s1 :
      Bind(h_lookup(s1, new, stale), LAMBDA l :
        record(l.s, l.slot, NameP(new, 0), "moved")))

(* Revision 3, the inserts after a migration: both names at the slot of    *)
(* the old name.                                                           *)
moved_record_plain(s, pk, slot, new) ==
    Bind(record(s, slot, NameP(pk.name, 0), "moved"), LAMBDA s1 :
      record(s1, slot, NameP(new, 0), "moved"))

(* What the loop does with the moved entries of pk.                        *)
moved_entries(s, pk, slot, entries, confirm, stale) ==
    IF entries = {} THEN s
    ELSE Bind(CHOOSE x \in entries : TRUE, LAMBDA e :
           IF e.date # "" THEN moved_expired(s, pk, slot, confirm)
           ELSE IF e.moved_to_pkgname # ""
           THEN Bind(moved_migrate(s, pk, e.moved_to_pkgname), LAMBDA s1 :
                  IF rev = 2
                  THEN moved_record_cached(s1, pk, slot, e.moved_to_pkgname, stale)
                  ELSE moved_record_plain(s1, pk, slot, e.moved_to_pkgname))
           ELSE s)

(* Revision 2, the body of the moved/expired loop for package pk: slot is  *)
(* set by the lookup in h, set again by the lookup in moved_cache, and     *)
(* then given to ohash_insert(&h, ...).                                    *)
moved_step_cached(s, pk, confirm, stale) ==
    Bind(h_lookup(s, pk.name, stale), LAMBDA l :
      IF l.key.used THEN l.s
      ELSE Bind(ohash_qlookup(l.s.mc, pk.origin, stale), LAMBDA qm :
        Bind(ohash_find(qm.tab, qm.slot), LAMBDA cm :
          IF cm.used /\ cm.cached
          THEN moved_entries([l.s EXCEPT !.mc = qm.tab], pk, qm.slot, cm.entries,
                             confirm, stale)
          ELSE Bind(mport_moved_lookup(pk.origin), LAMBDA entries :
                 Bind([l.s EXCEPT !.mc = ohash_insert(qm.tab, qm.slot, MovedCacheP(entries))],
                      LAMBDA s2 :
                        moved_entries(s2, pk, qm.slot, entries, confirm, stale))))))

(* Revision 3, the body of the moved/expired loop for package pk.          *)
moved_step_plain(s, pk, confirm, stale) ==
    Bind(h_lookup(s, pk.name, stale), LAMBDA l :
      IF l.key.used THEN l.s
      ELSE moved_entries(l.s, pk, l.slot, mport_moved_lookup(pk.origin), confirm, stale))

(* mport_upgrade up to the first loop: the list of the installed packages  *)
(* and the empty hashes.                                                   *)
upgrade_begin ==
    /\ gpc = "begin"
    /\ IF gdb.packages = {}
       THEN /\ gpc' = "done"
            /\ gret' = <<MPORT_ERR_FATAL>>
            /\ UNCHANGED <<packs_orig, h, index_cache, moved_cache>>
       ELSE /\ gpc' = "moved"
            /\ packs_orig' = mport_pkgmeta_list(gdb)
            /\ h' = ohash_init
            /\ index_cache' = ohash_init
            /\ moved_cache' = ohash_init
            /\ UNCHANGED gret
    /\ UNCHANGED <<rev, gdb, index, moved, gi, stack, trace, updated, total, failures>>
    /\ UNCHANGED <<install_vars, update_vars, more_vars>>

(* One iteration of the moved/expired loop.                                *)
upgrade_moved ==
    /\ gpc = "moved"
    /\ gi <= Len(packs_orig)
    /\ \E confirm \in ConfirmAnswers(1), stale \in BOOLEAN :
          \E s0 \in {Run} :
          \E s1 \in {IF rev = 2 THEN moved_step_cached(s0, packs_orig[gi], confirm, stale)
                     ELSE moved_step_plain(s0, packs_orig[gi], confirm, stale)} :
             Commit(s1)
    /\ gi' = gi + 1
    /\ UNCHANGED <<gpc, rev, index, moved, packs_orig, stack, updated, total, gret>>
    /\ UNCHANGED <<install_vars, update_vars, more_vars>>

(* packs = packs_orig before the second loop.                              *)
upgrade_rewind ==
    /\ gpc = "moved"
    /\ gi > Len(packs_orig)
    /\ gpc' = "upgrade"
    /\ gi' = 1
    /\ UNCHANGED <<rev, gdb, index, moved, packs_orig, h, index_cache, moved_cache,
                   stack, trace, updated, total, failures, gret>>
    /\ UNCHANGED <<install_vars, update_vars, more_vars>>

(* A call of mport_update_down for pack.                                   *)
Frame(pack) == [pack |-> pack, deps |-> <<>>, i |-> 1, slot |-> 0, ret |-> 0, at |-> "enter"]

(* The delete and install of a package the index has under a new name,    *)
(* and in revision 2 the insert of the new name.                           *)
upgrade_renamed(s, pk, new, stale) ==
    Bind(mport_delete_primative(s, pk.name, "upgrade"), LAMBDA s1 :
      Bind(mport_install_single(s1, new, pk.automatic, "upgrade"), LAMBDA s2 :
        IF rev = 2
        THEN Bind(h_lookup(s2, new, stale), LAMBDA l :
               record(l.s, l.slot, NameP(new, 0), "upgrade"))
        ELSE s2))

(* packs++ and total++ at the end of an iteration of the second loop.      *)
upgrade_next(s, u) ==
    /\ Commit(s)
    /\ gi' = gi + 1
    /\ total' = total + 1
    /\ updated' = updated + u
    /\ UNCHANGED stack

(* One iteration of the second loop, up to the call of mport_update_down   *)
(* when there is one.                                                      *)
upgrade_pack ==
    /\ gpc = "upgrade"
    /\ stack = <<>>
    /\ gi <= Len(packs_orig)
    /\ \E confirm \in ConfirmAnswers(0), stale \in BOOLEAN :
       \E pk \in {packs_orig[gi]} :
       \E l \in {h_lookup(Run, pk.name, stale)} :
          IF l.key.used THEN upgrade_next(l.s, 0)
          ELSE
          \E c \in {index_check(l.s, pk, stale, "upgrade")} :
          \E ie \in {mport_index_lookup_pkgname(pk.origin)} :
             IF c.match = 1
             THEN /\ Commit(c.s)
                  /\ stack' = <<Frame(pk)>>
                  /\ UNCHANGED <<gi, total, updated>>
             ELSE IF c.match = 2 /\ ie = {}
             THEN /\ Commit(c.s)
                  /\ gi' = gi + 1
                  /\ UNCHANGED <<stack, total, updated>>
             ELSE IF c.match = 2
             THEN \E s2 \in {prompt(c.s, pk.name, confirm, "upgrade")} :
                     IF confirm # MPORT_OK
                     THEN \E s3 \in {upgrade_renamed(s2, pk, (CHOOSE x \in ie : TRUE).pkgname,
                                                      stale)} :
                             upgrade_next(s3, 1)
                     ELSE upgrade_next(s2, 0)
             ELSE upgrade_next(c.s, 0)
    /\ UNCHANGED <<gpc, rev, index, moved, packs_orig, gret>>
    /\ UNCHANGED <<install_vars, update_vars, more_vars>>

(* The end of mport_upgrade.                                               *)
upgrade_end ==
    /\ gpc = "upgrade"
    /\ stack = <<>>
    /\ gi > Len(packs_orig)
    /\ gpc' = "done"
    /\ gret' = <<MPORT_OK>>
    /\ UNCHANGED <<rev, gdb, index, moved, packs_orig, gi, h, index_cache, moved_cache,
                   stack, trace, updated, total, failures>>
    /\ UNCHANGED <<install_vars, update_vars, more_vars>>


(* The call of mport_update_down on top of the stack, and its depth.       *)
Top == stack[Len(stack)]

Depth == Len(stack)

(* The return of the call on top of the stack with value r: to the loop    *)
(* of the caller, or to the second loop of mport_upgrade.                  *)
down_return(r) ==
    IF Depth = 1
    THEN /\ stack' = <<>>
         /\ updated' = updated + r
         /\ gi' = gi + 1
         /\ total' = total + 1
    ELSE /\ stack' = [SubSeq(stack, 1, Depth - 1) EXCEPT ![Depth - 1].ret = @ + r,
                                                         ![Depth - 1].at = "after"]
         /\ UNCHANGED <<updated, gi, total>>

(* mport_pkgmeta_vec_free(depends_orig) of the call at this depth: the     *)
(* names h took from the vector point to freed memory.                     *)
vec_free(s, depth) ==
    [s EXCEPT !.h.t = [i \in DOMAIN s.h.t |->
        IF s.h.t[i].p.used /\ s.h.t[i].p.own = depth
        THEN [s.h.t[i] EXCEPT !.p.live = FALSE]
        ELSE s.h.t[i]]]

(* ohash_insert(h, slot, name) after an update that returned 0: revision 2 *)
(* looks the slot up again, revision 3 uses the slot it has.               *)
record_updated(s, slot, pack, stale) ==
    IF rev = 2
    THEN Bind(h_lookup(s, pack.name, stale), LAMBDA l :
           record(l.s, l.slot, NameP(pack.name, pack.own), "upgrade"))
    ELSE record(s, slot, NameP(pack.name, pack.own), "upgrade")

(* The index check of pack and, when it says so, mport_update: ret is      *)
(* MPORT_OK when mport_update returned 0, and called says whether it ran.  *)
check_and_update(s, pack, outcome, stale) ==
    Bind(index_check(s, pack, stale, "upgrade"), LAMBDA c :
      IF c.match = 0 THEN [called |-> FALSE, ret |-> MPORT_OK, s |-> c.s]
      ELSE Bind(mport_update(c.s, pack.name, outcome, "upgrade"), LAMBDA u :
             [called |-> TRUE, ret |-> u.ret, s |-> u.s]))

(* The branch of mport_update_down for a package without depends rows.     *)
down_leaf(s, pack, outcome, stale) ==
    Bind(h_lookup(s, pack.name, stale), LAMBDA l :
      IF l.key.used THEN [ret |-> 0, s |-> l.s]
      ELSE Bind(check_and_update(l.s, pack, outcome, stale), LAMBDA u :
             IF u.called /\ u.ret = MPORT_OK
             THEN [ret |-> 1, s |-> record_updated(u.s, l.slot, pack, stale)]
             ELSE [ret |-> 0, s |-> u.s]))

(* The update of the depend after the recursive call returned.             *)
down_after(s, dep, slot, outcome, stale) ==
    Bind(check_and_update(s, dep, outcome, stale), LAMBDA u :
      IF u.called /\ u.ret = MPORT_OK
      THEN [ret |-> 1, s |-> record_updated(u.s, slot, dep, stale)]
      ELSE [ret |-> 0, s |-> u.s])

(* The update of the package itself after the loop over its depends.       *)
down_tail(s, pack, outcome, stale) ==
    Bind(check_and_update(s, pack, outcome, stale), LAMBDA u :
      IF u.called /\ u.ret = MPORT_OK
      THEN Bind(h_lookup(u.s, pack.name, stale), LAMBDA l :
             [ret |-> 1,
              s |-> IF l.key.used THEN l.s
                    ELSE record(l.s, l.slot, NameP(pack.name, pack.own), "upgrade")])
      ELSE [ret |-> 0, s |-> u.s])

(* mport_update_down from its entry to the loop over the depends, or to    *)
(* its return when the package has no depends rows.                        *)
down_enter ==
    /\ stack # <<>>
    /\ Top.at = "enter"
    /\ \E dd \in {mport_pkgmeta_get_downdepends(gdb, Top.pack, Depth)} :
          IF dd.null
          THEN \E outcome \in UpgradeOutcomes, stale \in BOOLEAN :
                  /\ outcome = "ok" \/ failures < MaxFailures
                  /\ \E r \in {down_leaf(Run, Top.pack, outcome, stale)} :
                        /\ Commit(r.s)
                        /\ down_return(r.ret)
          ELSE /\ stack' = [stack EXCEPT ![Depth].deps = dd.vec, ![Depth].at = "loop"]
               /\ UNCHANGED <<gdb, h, index_cache, moved_cache, trace, failures,
                              updated, gi, total>>
    /\ UNCHANGED <<gpc, rev, index, moved, packs_orig, gret>>
    /\ UNCHANGED <<install_vars, update_vars, more_vars>>

(* The head of an iteration of the loop over the depends: the lookup of    *)
(* the depend in h and the recursive call when it is not there.            *)
down_depend ==
    /\ stack # <<>>
    /\ Top.at = "loop"
    /\ Top.i <= Len(Top.deps)
    /\ \E stale \in BOOLEAN :
       \E l \in {h_lookup(Run, Top.deps[Top.i].name, stale)} :
          /\ Commit(l.s)
          /\ IF l.key.used
             THEN stack' = [stack EXCEPT ![Depth].i = @ + 1]
             ELSE /\ Depth < MaxDepth
                  /\ stack' = Append([stack EXCEPT ![Depth].slot = l.slot],
                                     Frame(Top.deps[Top.i]))
    /\ UNCHANGED <<gpc, rev, index, moved, packs_orig, gi, updated, total, gret>>
    /\ UNCHANGED <<install_vars, update_vars, more_vars>>

(* The rest of the iteration, after the recursive call returned: the index *)
(* check and the update of the depend.                                     *)
down_depend_update ==
    /\ stack # <<>>
    /\ Top.at = "after"
    /\ \E outcome \in UpgradeOutcomes, stale \in BOOLEAN :
          /\ outcome = "ok" \/ failures < MaxFailures
          /\ \E r \in {down_after(Run, Top.deps[Top.i], Top.slot, outcome, stale)} :
                /\ Commit(r.s)
                /\ stack' = [stack EXCEPT ![Depth].i = @ + 1, ![Depth].at = "loop",
                                          ![Depth].ret = @ + r.ret]
    /\ UNCHANGED <<gpc, rev, index, moved, packs_orig, gi, updated, total, gret>>
    /\ UNCHANGED <<install_vars, update_vars, more_vars>>

(* After the loop: the index check and the update of the package itself,   *)
(* the release of the depends vector and the return.                       *)
down_self ==
    /\ stack # <<>>
    /\ Top.at = "loop"
    /\ Top.i > Len(Top.deps)
    /\ \E outcome \in UpgradeOutcomes, stale \in BOOLEAN :
          /\ outcome = "ok" \/ failures < MaxFailures
          /\ \E r \in {down_tail(Run, Top.pack, outcome, stale)} :
             \E s1 \in {vec_free(r.s, Depth)} :
                /\ Commit(s1)
                /\ down_return(Top.ret + r.ret)
    /\ UNCHANGED <<gpc, rev, index, moved, packs_orig, gret>>
    /\ UNCHANGED <<install_vars, update_vars, more_vars>>

(* The depends tables of the runs: none, one edge in either direction of   *)
(* the name order, a chain, two paths to one package, and a cycle.         *)
Graphs ==
    {{},
     {<<"a", "b">>},
     {<<"b", "a">>},
     {<<"a", "b">>, <<"b", "c">>},
     {<<"a", "b">>, <<"a", "c">>, <<"b", "c">>},
     {<<"a", "b">>, <<"b", "a">>}}

(* What the index and the moved table say about one of the packages: the   *)
(* kind gone is a package that moved to a name the index does not have.    *)
Specials ==
    {[pkg |-> "none", kind |-> "none"]} \cup
    {[pkg |-> n, kind |-> k] : n \in Installed, k \in {"expired", "moved", "origin"}} \cup
    {[pkg |-> "a", kind |-> "gone"]}

IndexOf(upd, sp) ==
    {[pkgname |-> n, version |-> IF n \in upd THEN 2 ELSE 1, origin |-> Origin[n]] :
        n \in Installed \ (IF sp.kind = "origin" THEN {sp.pkg} ELSE {})}
    \cup (IF sp.kind \in {"moved", "origin"}
          THEN {[pkgname |-> NewName, version |-> 1, origin |-> Origin[sp.pkg]]}
          ELSE {})

MovedOf(sp) ==
    IF sp.kind = "expired"
    THEN {[origin |-> Origin[sp.pkg], date |-> "2020-01-01", moved_to_pkgname |-> ""]}
    ELSE IF sp.kind \in {"moved", "gone"}
    THEN {[origin |-> Origin[sp.pkg], date |-> "", moved_to_pkgname |-> NewName]}
    ELSE {}

DbOf(graph) ==
    [packages  |-> {[pkg |-> n, version |-> 1, prefix |-> "/usr/local",
                     automatic |-> IF \E e \in graph : e[2] = n THEN MPORT_AUTOMATIC
                                   ELSE MPORT_EXPLICIT,
                     locked |-> MPORT_UNLOCKED] : n \in Installed},
     depends   |-> {[pkg |-> e[1], depend_pkgname |-> e[2], depend_pkgversion |-> 1] :
                       e \in graph},
     conflicts |-> {}]

(* The database d with the packages of S locked (mport lock).               *)
Lock(d, S) ==
    [d EXCEPT !.packages =
        {IF r.pkg \in S THEN [r EXCEPT !.locked = MPORT_LOCKED] ELSE r : r \in @}]

(* The sets of locked packages of the runs over depends table graph: a is  *)
(* locked in some runs where nothing depends on anything and where b       *)
(* depends on a.                                                           *)
LockedSets(graph) ==
    IF graph \in {{}, {<<"b", "a">>}} THEN {{}, {"a"}} ELSE {{}}

InitUpgrade ==
    /\ InstallIdle
    /\ UpdateIdle
    /\ AutoremoveIdle /\ LockIdle /\ ExtractIdle /\ VersionIdle /\ AssetsIdle
    /\ gpc = "begin"
    /\ rev \in {2, 3}
    /\ \E graph \in Graphs, upd \in SUBSET Installed, sp \in Specials :
          /\ gdb \in {Lock(DbOf(graph), lk) : lk \in LockedSets(graph)}
                      \cup {[packages |-> {}, depends |-> {}, conflicts |-> {}]}
          /\ index = IndexOf(upd, sp)
          /\ moved = MovedOf(sp)
    /\ packs_orig = <<>>
    /\ gi = 1
    /\ h = <<>>
    /\ index_cache = <<>>
    /\ moved_cache = <<>>
    /\ stack = <<>>
    /\ trace = <<>>
    /\ updated = 0
    /\ total = 0
    /\ failures = 0
    /\ gret = <<>>

NextUpgrade ==
    \/ upgrade_begin
    \/ upgrade_moved
    \/ upgrade_rewind
    \/ upgrade_pack
    \/ upgrade_end
    \/ down_enter
    \/ down_depend
    \/ down_depend_update
    \/ down_self

SpecUpgrade == InitUpgrade /\ [][NextUpgrade]_vars


(* The positions of the trace with event ev for package n.                 *)
Calls(ev, n) == {i \in 1..Len(trace) : trace[i].ev = ev /\ trace[i].name = n}

(* a has a depends row for b in the live database.                         *)
DependsOn(a, b) == \E r \in gdb.depends : r.pkg = a /\ r.depend_pkgname = b

(* The depends rows of the live database have a cycle.                     *)
Cyclic ==
    \E a, b, c \in Installed :
        \/ DependsOn(a, a)
        \/ DependsOn(a, b) /\ DependsOn(b, a)
        \/ DependsOn(a, b) /\ DependsOn(b, c) /\ DependsOn(c, a)

(* C7: in an upgrade run over an acyclic depends table, whenever package A *)
(* is upgraded and a package B that A depends on is upgraded in the same   *)
(* run, the upgrade of B comes before the upgrade of A.                    *)
C7_DependsUpgradedFirst ==
    ~Cyclic =>
        \A i, j \in 1..Len(trace) :
            (/\ trace[i].ev = "upgraded"
             /\ trace[j].ev = "upgraded"
             /\ DependsOn(trace[i].name, trace[j].name)) => j < i

(* C8: in one run of mport_upgrade, mport_update is called at most once    *)
(* for a package name and a name is inserted into the hash of processed    *)
(* names at most once.                                                     *)
C8_UpdatedAndRecordedOnce ==
    \A n \in Installed \cup {NewName} :
        /\ Cardinality(Calls("update", n)) <= 1
        /\ Cardinality(Calls("record", n)) <= 1

(* C9: with a cycle in the depends table the recursion of                  *)
(* mport_update_down is bounded: no package has two calls in progress.     *)
C9_RecursionBounded ==
    \A i, j \in 1..Len(stack) :
        i # j => stack[i].pack.name # stack[j].pack.name

(* The names the moved/expired loop deleted or installed.                  *)
MovedNames ==
    {trace[i].name : i \in {k \in 1..Len(trace) :
        trace[k].pass = "moved" /\ trace[k].ev \in {"delete", "install"}}}

(* C10: after the moved/expired loop deleted or migrated a package, a      *)
(* lookup in the hash of processed names finds the old name and the new    *)
(* name, and the second loop does no index check, update, delete or        *)
(* install for them.                                                       *)
C10_MovedNamesAreSkipped ==
    gpc \in {"upgrade", "done"} =>
        /\ \A n \in MovedNames : \A stale \in BOOLEAN : ohash_has(h, n, stale)
        /\ \A i \in 1..Len(trace) :
              (/\ trace[i].pass = "upgrade"
               /\ trace[i].ev \in {"check", "update", "delete", "install"})
                  => trace[i].name \notin MovedNames

(* The positions of the trace before i where the user was asked about n    *)
(* in this pass and agreed.                                                *)
Agreed(i, n, pass) ==
    \E j \in 1..(i - 1) :
        trace[j] = Ev("confirm_yes", n, pass)

(* The packages rows of n in the live database of the upgrade run.         *)
InstalledRows(n) == {r \in gdb.packages : r.pkg = n}

(* C11: in the second loop of mport_upgrade a package whose index check    *)
(* is an origin match is deleted and replaced only when the confirm        *)
(* callback returned MPORT_OK; on a negative answer it is left alone.      *)
C11_RenameOnlyOnConfirm ==
    \A i \in 1..Len(trace) :
        /\ (trace[i].pass = "upgrade" /\ trace[i].ev = "delete")
              => Agreed(i, trace[i].name, "upgrade")
        /\ trace[i] = Ev("confirm_no", trace[i].name, "upgrade")
              => ~ \E j \in (i + 1)..Len(trace) :
                      trace[j] = Ev("delete", trace[i].name, "upgrade")

C13_MovedOnlyOnConfirm ==
    \A e \in moved : (e.date = "" /\ e.moved_to_pkgname # "") =>
        \A n \in {x \in Installed : Origin[x] = e.origin} :
            \A i \in 1..Len(trace) :
                trace[i] \in {Ev("delete", n, "moved"), Ev("install", e.moved_to_pkgname, "moved")}
                    => Agreed(i, n, "moved")


(* The packages row of name in database d.                                 *)
RowOf(d, name) == CHOOSE r \in d.packages : r.pkg = name

C34_UpdateOnlyWhenUpdateAvailable ==
    \A i \in DOMAIN trace :
       trace[i].ev = "update" =>
          \E e \in index : e.pkgname = trace[i].name /\ e.version > 1

(* C35: of a package the moved table names as moved and of the package it  *)
(* moved to, at least one is installed in every state: a failed install of *)
(* the new package leaves the old one installed.                           *)
C35_OldOrNewInstalled ==
    \A k \in DOMAIN packs_orig :
       \A e \in mport_moved_lookup(packs_orig[k].origin) :
          e.moved_to_pkgname # "" =>
             \E r \in gdb.packages : r.pkg \in {packs_orig[k].name, e.moved_to_pkgname}

(* C36: no step of an upgrade run without force removes or changes the     *)
(* packages row of a locked package.                                       *)
C36_LockedPackagesAreKept ==
    [][\A r \in gdb.packages : r.locked = MPORT_LOCKED => r \in gdb'.packages]_vars


(* C17: once mport_bundle_read_init has succeeded, mport_update_primative  *)
(* does not return before it has called mport_bundle_read_finish.          *)
C17_FinishOnEveryReturn ==
    upc = "done" => bundle # "init"


-----------------------------------------------------------------------------
(* mport_autoremove.                                                       *)

(* The times the model lets the loop go round on one package.              *)
MaxSpins == 2

not_autoremove_vars ==
    <<install_vars, update_vars, upgrade_vars, lock_vars, extract_vars, version_vars, assets_vars,
      list_vars>>

(* mport_pkgmeta_get_updepends: NULL when no depends row names the         *)
(* package, and otherwise the installed packages whose depends rows do.    *)
mport_pkgmeta_get_updepends(d, pack) ==
    LET rows == {r \in d.depends : r.depend_pkgname = pack.name}
    IN  IF rows = {} THEN [null |-> TRUE, vec |-> <<>>]
        ELSE [null |-> FALSE, vec |-> pkgmeta_vec(d, {r.pkg : r \in rows}, 0)]

(* What depends = start can leave in depends, start never having been      *)
(* assigned: a pointer that cannot be read, or the value depends had.      *)
StartValues == {"garbage", "depends"}

(* Lines 262-271: one of the entries of the vector is explicit.            *)
found_explicit(vec) == \E i \in 1..Len(vec) : vec[i].automatic = MPORT_EXPLICIT

(* Lines 278-286: mport_delete_primative for every entry of the vector;    *)
(* the calls for the names in fails fail.                                  *)
RECURSIVE delete_depends(_, _, _, _)
delete_depends(d, vec, i, fails) ==
    IF i > Len(vec) THEN [db |-> d, log |-> <<>>]
    ELSE LET ok   == vec[i].name \notin fails
             rest == delete_depends(IF ok THEN delete_rows(d, vec[i].name) ELSE d,
                                    vec, i + 1, fails)
         IN  [db |-> rest.db, log |-> <<[name |-> vec[i].name, ok |-> ok]>> \o rest.log]

(* mport_autoremove returns with code c.                                   *)
autoremove_return(c) ==
    /\ apc' = "done"
    /\ aret' = <<c>>

(* Lines 244-249: mport_pkgmeta_list.                                      *)
autoremove_list ==
    /\ apc = "list"
    /\ \E ok \in BOOLEAN :
          IF ~ok THEN autoremove_return(MPORT_ERR_FATAL) /\ UNCHANGED apacks
          ELSE IF adb.packages = {} THEN autoremove_return(MPORT_OK) /\ UNCHANGED apacks
          ELSE /\ apacks' = mport_pkgmeta_list(adb)
               /\ apc' = "loop"
               /\ UNCHANGED aret
    /\ UNCHANGED <<adb, adb0, ai, aspins, alog>>
    /\ UNCHANGED not_autoremove_vars

(* Lines 252-255: an explicit package is passed over.                      *)
autoremove_explicit ==
    /\ apc = "loop"
    /\ ai <= Len(apacks)
    /\ apacks[ai].automatic = MPORT_EXPLICIT
    /\ ai' = ai + 1
    /\ aspins' = 0
    /\ UNCHANGED <<apc, adb, adb0, apacks, alog, aret>>
    /\ UNCHANGED not_autoremove_vars

(* Lines 257-259: mport_pkgmeta_get_updepends failed; continue goes back   *)
(* to the loop test with packs where it was.                               *)
autoremove_spin ==
    /\ apc = "loop"
    /\ ai <= Len(apacks)
    /\ apacks[ai].automatic # MPORT_EXPLICIT
    /\ aspins < MaxSpins
    /\ aspins' = aspins + 1
    /\ UNCHANGED <<apc, adb, adb0, apacks, ai, alog, aret>>
    /\ UNCHANGED not_autoremove_vars

(* Lines 257-288 for an automatic package when mport_pkgmeta_get_updepends *)
(* returned MPORT_OK.                                                      *)
autoremove_automatic ==
    /\ apc = "loop"
    /\ ai <= Len(apacks)
    /\ apacks[ai].automatic # MPORT_EXPLICIT
    /\ \E start \in StartValues :
       \E up \in {mport_pkgmeta_get_updepends(adb, apacks[ai])} :
          IF start = "garbage" \/ up.null
          THEN /\ apc' = "crashed"
               /\ UNCHANGED <<adb, ai, aspins, alog>>
          ELSE IF found_explicit(up.vec)
          THEN /\ ai' = ai + 1
               /\ aspins' = 0
               /\ UNCHANGED <<apc, adb, alog>>
          ELSE \E fails \in SUBSET {up.vec[i].name : i \in 1..Len(up.vec)} :
               \E r \in {delete_depends(adb, up.vec, 1, fails)} :
                  /\ adb' = r.db
                  /\ alog' = alog \o r.log
                  /\ ai' = ai + 1
                  /\ aspins' = 0
                  /\ UNCHANGED apc
    /\ UNCHANGED <<adb0, apacks, aret>>
    /\ UNCHANGED not_autoremove_vars

(* Line 291.                                                               *)
autoremove_end ==
    /\ apc = "loop"
    /\ ai > Len(apacks)
    /\ autoremove_return(MPORT_OK)
    /\ UNCHANGED <<adb, adb0, apacks, ai, aspins, alog>>
    /\ UNCHANGED not_autoremove_vars

(* The depends rows a database of the three packages can have.             *)
Edges == {e \in Installed \X Installed : e[1] # e[2]}

(* The databases mport_autoremove is called on.                            *)
AutoremoveDbs ==
    {[packages  |-> {[pkg |-> n, version |-> 1, prefix |-> "/usr/local",
                      automatic |-> IF n \in auto THEN MPORT_AUTOMATIC ELSE MPORT_EXPLICIT,
                      locked |-> MPORT_UNLOCKED] : n \in inst},
      depends   |-> {[pkg |-> e[1], depend_pkgname |-> e[2], depend_pkgversion |-> 1] :
                        e \in {x \in graph : x[1] \in inst /\ x[2] \in inst}},
      conflicts |-> {}] :
        inst \in SUBSET Installed, auto \in SUBSET Installed, graph \in SUBSET Edges}

InitAutoremove ==
    /\ InstallIdle
    /\ UpdateIdle
    /\ UpgradeIdle
    /\ LockIdle /\ ExtractIdle /\ VersionIdle /\ AssetsIdle
    /\ apc = "list"
    /\ adb \in AutoremoveDbs
    /\ adb0 = adb
    /\ apacks = <<>>
    /\ ai = 1
    /\ aspins = 0
    /\ alog = <<>>
    /\ aret = <<>>

NextAutoremove ==
    \/ autoremove_list
    \/ autoremove_explicit
    \/ autoremove_spin
    \/ autoremove_automatic
    \/ autoremove_end

SpecAutoremove == InitAutoremove /\ [][NextAutoremove]_vars

(* The names of the packages rows of d.                                    *)
NamesOf(d) == {r.pkg : r \in d.packages}

(* The packages of d that some explicit package of d depends on, directly  *)
(* or through a chain of depends rows.                                     *)
RECURSIVE NeededFrom(_, _)
NeededFrom(d, S) ==
    LET more == S \cup {r.depend_pkgname : r \in {x \in d.depends : x.pkg \in S}}
    IN  IF more = S THEN S ELSE NeededFrom(d, more)

Needed(d) ==
    NeededFrom(d, {r.pkg : r \in {x \in d.packages : x.automatic = MPORT_EXPLICIT}})

(* The automatic packages of d that no explicit package needs.             *)
Orphans(d) == NamesOf(d) \ Needed(d)

(* C15: mport_autoremove deletes no package but the automatic packages     *)
(* that no explicit package depends on directly or through a chain, and    *)
(* when it has returned MPORT_OK and no delete failed, it has deleted all  *)
(* of those.                                                               *)
C15_AutoremoveDeletesOrphans ==
    /\ (NamesOf(adb0) \ NamesOf(adb)) \subseteq Orphans(adb0)
    /\ (/\ apc = "done"
        /\ aret = <<MPORT_OK>>
        /\ \A i \in 1..Len(alog) : alog[i].ok)
          => NamesOf(adb) = NamesOf(adb0) \ Orphans(adb0)

(* C38: every iteration of the package loop of mport_autoremove goes on to *)
(* the next package: a step taken inside the loop leaves the run in the    *)
(* loop with packs advanced by one, so the loop ends after as many         *)
(* iterations as there are packages.                                       *)
C38_EveryIterationAdvances ==
    [][(apc = "loop" /\ ai <= Len(apacks)) => (apc' = "loop" /\ ai' = ai + 1)]_vars


-----------------------------------------------------------------------------
(* Two mport processes on the same live database.                          *)

Procs == {1, 2}

not_lock_vars ==
    <<install_vars, update_vars, upgrade_vars, autoremove_vars, extract_vars, version_vars, assets_vars,
      list_vars>>

(* The mutating operations.                                                *)
Operations == {"install", "update", "upgrade", "autoremove"}

(* The calls that write the live database in one run of an operation, in   *)
(* order: do_actual_install and do_post_install for a package;             *)
(* mport_update_primative for a bundle of one package; mport_upgrade for   *)
(* one moved package; mport_autoremove for one vector of two up-depends.   *)
Writes(op) ==
    CASE op = "install"    -> <<"do_actual_install", "mark_complete">>
      [] op = "update"     -> <<"mport_bundle_read_update_pkg">>
      [] op = "upgrade"    -> <<"mport_delete_primative", "mport_install_single">>
      [] op = "autoremove" -> <<"mport_delete_primative", "mport_delete_primative">>

(* A process enters one of the operations: none of them takes a lock       *)
(* before its first write.                                                 *)
lock_enter ==
    /\ \E p \in Procs, op \in Operations :
          /\ lpc[p] = "idle"
          /\ lpc' = [lpc EXCEPT ![p] = "running"]
          /\ lop' = [lop EXCEPT ![p] = op]
    /\ UNCHANGED <<ldone, lockfile, lwrites>>
    /\ UNCHANGED not_lock_vars

(* The next write of the operation of a process reaches the database.      *)
lock_write ==
    /\ \E p \in Procs :
          /\ lpc[p] = "running"
          /\ ldone[p] < Len(Writes(lop[p]))
          /\ ldone' = [ldone EXCEPT ![p] = @ + 1]
          /\ lwrites' = Append(lwrites, [proc |-> p, call |-> Writes(lop[p])[ldone[p] + 1]])
    /\ UNCHANGED <<lpc, lop, lockfile>>
    /\ UNCHANGED not_lock_vars

(* The operation returns: nothing is released.                             *)
lock_return ==
    /\ \E p \in Procs :
          /\ lpc[p] = "running"
          /\ ldone[p] = Len(Writes(lop[p]))
          /\ lpc' = [lpc EXCEPT ![p] = "done"]
    /\ UNCHANGED <<lop, ldone, lockfile, lwrites>>
    /\ UNCHANGED not_lock_vars

InitLock ==
    /\ InstallIdle
    /\ UpdateIdle
    /\ UpgradeIdle
    /\ AutoremoveIdle /\ ExtractIdle /\ VersionIdle /\ AssetsIdle
    /\ lpc = [p \in Procs |-> "idle"]
    /\ lop = [p \in Procs |-> "none"]
    /\ ldone = [p \in Procs |-> 0]
    /\ lockfile = {}
    /\ lwrites = <<>>

NextLock ==
    \/ lock_enter
    \/ lock_write
    \/ lock_return

SpecLock == InitLock /\ [][NextLock]_vars

(* C16: a process that has made a write of a mutating operation and has    *)
(* not returned from it holds the advisory lock, a process that has        *)
(* returned does not, and the writes of two processes are not interleaved. *)
C16_WritesUnderLock ==
    /\ \A p \in Procs :
          /\ (lpc[p] = "running" /\ ldone[p] > 0) => lockfile = {p}
          /\ lpc[p] = "done" => p \notin lockfile
    /\ \A i, j, k \in 1..Len(lwrites) :
          (i < j /\ j < k /\ lwrites[i].proc = lwrites[k].proc)
              => lwrites[j].proc = lwrites[i].proc


-----------------------------------------------------------------------------
(* The extraction loop of do_actual_install: the asset list of the stub    *)
(* and the payload entries of the archive are read side by side.           *)

not_extract_vars ==
    <<install_vars, update_vars, upgrade_vars, autoremove_vars, lock_vars, version_vars, assets_vars,
      list_vars>>

(* The names the plists and archives of the model are made of.             *)
Names == {"x", "y"}

(* The entry types of the plists: a file, a directory change, a command.   *)
ExtractTypes == {"ASSET_FILE", "ASSET_CWD", "ASSET_EXEC"}

(* Lines 569-573: the path of the file of asset data under cwd.            *)
asset_file(cwd, data) == <<cwd, data>>

(* goto ERROR.                                                             *)
extract_ERROR ==
    /\ epc' = "done"
    /\ eret' = <<MPORT_ERR_FATAL>>
    /\ UNCHANGED <<eplist, earchive, ecursor, epos, ecwd, efs>>

(* Lines 555-598 for an entry of a file type: the next entry of the        *)
(* archive is taken, given the path of the asset and extracted.            *)
extract_file ==
    /\ epc = "loop"
    /\ ecursor <= Len(eplist)
    /\ eplist[ecursor].type \in FileTypes
    /\ \E next_ok \in BOOLEAN, extract_ok \in BOOLEAN :
          IF ~next_ok THEN extract_ERROR
          ELSE IF epos > Len(earchive) THEN extract_ERROR
          ELSE IF ~extract_ok
          THEN /\ epc' = "done"
               /\ eret' = <<MPORT_ERR_FATAL>>
               /\ epos' = epos + 1
               /\ UNCHANGED <<eplist, earchive, ecursor, ecwd, efs>>
          ELSE /\ efs' = {f \in efs : f.path # asset_file(ecwd, eplist[ecursor].data)} \cup
                           {[path    |-> asset_file(ecwd, eplist[ecursor].data),
                             asset   |-> eplist[ecursor].data,
                             payload |-> earchive[epos]]}
               /\ epos' = epos + 1
               /\ ecursor' = ecursor + 1
               /\ UNCHANGED <<epc, eplist, earchive, ecwd, eret>>
    /\ UNCHANGED not_extract_vars

(* Lines 492-496: ASSET_CWD.                                               *)
extract_cwd ==
    /\ epc = "loop"
    /\ ecursor <= Len(eplist)
    /\ eplist[ecursor].type = "ASSET_CWD"
    /\ \E ok \in BOOLEAN :
          IF ok
          THEN /\ ecwd' = eplist[ecursor].data
               /\ ecursor' = ecursor + 1
               /\ UNCHANGED <<epc, eplist, earchive, epos, efs, eret>>
          ELSE extract_ERROR
    /\ UNCHANGED not_extract_vars

(* Lines 551-554: ASSET_EXEC reads nothing from the archive.               *)
extract_exec ==
    /\ epc = "loop"
    /\ ecursor <= Len(eplist)
    /\ eplist[ecursor].type = "ASSET_EXEC"
    /\ \E ok \in BOOLEAN :
          IF ok
          THEN /\ ecursor' = ecursor + 1
               /\ UNCHANGED <<epc, eplist, earchive, epos, ecwd, efs, eret>>
          ELSE extract_ERROR
    /\ UNCHANGED not_extract_vars

(* The end of STAILQ_FOREACH: COMMIT and return MPORT_OK.                  *)
extract_end ==
    /\ epc = "loop"
    /\ ecursor > Len(eplist)
    /\ epc' = "done"
    /\ eret' = <<MPORT_OK>>
    /\ UNCHANGED <<eplist, earchive, ecursor, epos, ecwd, efs>>
    /\ UNCHANGED not_extract_vars

(* The asset lists of at most MaxAssets entries.                           *)
ExtractPlists ==
    UNION {[1..n -> [type : ExtractTypes, data : Names]] : n \in 0..MaxAssets}

(* The archives: the payload of every name at most once, in any order.     *)
Archives ==
    {a \in UNION {[1..n -> Names] : n \in 0..Cardinality(Names)} :
        \A i, j \in DOMAIN a : i # j => a[i] # a[j]}

InitExtract ==
    /\ InstallIdle
    /\ UpdateIdle
    /\ UpgradeIdle
    /\ AutoremoveIdle /\ LockIdle /\ VersionIdle /\ AssetsIdle
    /\ epc = "loop"
    /\ eplist \in ExtractPlists
    /\ earchive \in Archives
    /\ ecursor = 1
    /\ epos = 1
    /\ ecwd = "/usr/local"
    /\ efs = {}
    /\ eret = <<>>

NextExtract ==
    \/ extract_file
    \/ extract_cwd
    \/ extract_exec
    \/ extract_end

SpecExtract == InitExtract /\ [][NextExtract]_vars

(* C18: no file is written with the payload of an archive entry of         *)
(* another name: when the next entry of the archive is not that of the     *)
(* next file of the plist, the loop fails instead of extracting it.        *)
C18_OutOfSyncFails ==
    \A f \in efs : f.payload = f.asset


-----------------------------------------------------------------------------
(* mport_version_cmp.  A string is a sequence of characters; a buffer is   *)
(* a string with its NUL bytes.                                            *)

not_version_vars ==
    <<install_vars, update_vars, upgrade_vars, autoremove_vars, lock_vars, extract_vars, assets_vars,
      list_vars>>

(* The longest base of the version strings of the model.                   *)
MaxBase == 2

NUL == "NUL"

Digits == {"0", "1", "2", "3", "4", "5", "6", "7", "8", "9"}

(* (int) c for the characters of the model.                                *)
CharCode(c) ==
    CASE c = NUL -> 0
      [] c = "." -> 46
      [] c = "+" -> 43
      [] c = "," -> 44
      [] c = "<" -> 60
      [] c = "=" -> 61
      [] c = ">" -> 62
      [] c = "_" -> 95
      [] c = "a" -> 97
      [] c = "|" -> 124
      [] c \in Digits -> 48 + (CHOOSE d \in 0..9 : <<"0", "1", "2", "3", "4", "5", "6", "7", "8", "9">>[d + 1] = c)

(* *p for p = buf + i - 1: the bytes after the last one the model knows    *)
(* are zero.                                                               *)
Byte(buf, i) == IF i <= Len(buf) THEN buf[i] ELSE NUL

(* rindex(s, c): the index of the last c of the string, 0 for NULL.        *)
rindex(str, c) ==
    IF \E i \in 1..Len(str) : str[i] = c
    THEN CHOOSE i \in 1..Len(str) : str[i] = c /\ \A j \in (i + 1)..Len(str) : str[j] # c
    ELSE 0

(* strtol(buf + i - 1, &end, 10) on a digit or a non-digit: the value and  *)
(* the index of end.                                                       *)
RECURSIVE strtol_from(_, _, _)
strtol_from(buf, i, acc) ==
    IF Byte(buf, i) \in Digits
    THEN strtol_from(buf, i + 1, acc * 10 + (CharCode(Byte(buf, i)) - 48))
    ELSE [val |-> acc, end |-> i]

strtol(buf, i) == strtol_from(buf, i, 0)

(* *p = '\0' for p # NULL.                                                 *)
cut(buf, i) == IF i = 0 THEN buf ELSE [buf EXCEPT ![i] = NUL]

(* parse_version: the buffer strdup returned, cut at the last '<', '>',    *)
(* ',' and '_' of the string, with the epoch and the revision read behind  *)
(* the last ',' and the last '_'.                                          *)
parse_version(in) ==
    Bind(rindex(in, "_"), LAMBDA underscore :
    Bind(rindex(in, ","), LAMBDA comma :
    Bind(cut(cut(cut(in \o <<NUL>>, rindex(in, "<")), rindex(in, ">")), comma), LAMBDA s2 :
    Bind(cut(s2, underscore), LAMBDA s3 :
       [version  |-> s3,
        epoch    |-> IF comma = 0 THEN 0 ELSE strtol(s2, comma + 1).val,
        revision |-> IF underscore = 0 THEN 0 ELSE strtol(s3, underscore + 1).val]))))

cmp_ints(a, b) == IF a = b THEN 0 ELSE IF a < b THEN -1 ELSE 1

(* The inner while loop: a run of '.' and '+' is stepped over.             *)
RECURSIVE skip_dots(_, _)
skip_dots(buf, i) ==
    IF Byte(buf, i) \in {".", "+"} THEN skip_dots(buf, i + 1) ELSE i

(* One side of one round of the loop of cmp_versions: the number taken     *)
(* and the pointer after it.  After a run of '.' that ends the string the  *)
(* else branch takes the NUL as a character and steps over it.             *)
sub(buf, i) ==
    IF Byte(buf, i) = NUL THEN [val |-> 0, end |-> i]
    ELSE Bind(skip_dots(buf, i), LAMBDA j :
            IF Byte(buf, j) \in Digits THEN strtol(buf, j)
            ELSE [val |-> CharCode(Byte(buf, j)), end |-> j + 1])

(* cmp_versions(a, b) from the pointers i and j on.                        *)
RECURSIVE cmp_versions_from(_, _, _, _)
cmp_versions_from(a, i, b, j) ==
    IF Byte(a, i) = NUL /\ Byte(b, j) = NUL THEN 0
    ELSE Bind(sub(a, i), LAMBDA a_sub :
         Bind(sub(b, j), LAMBDA b_sub :
         Bind(cmp_ints(a_sub.val, b_sub.val), LAMBDA result :
            IF result # 0 THEN result
            ELSE cmp_versions_from(a, a_sub.end, b, b_sub.end))))

cmp_versions(a, b) == cmp_versions_from(a, 1, b, 1)

(* What can lie behind the buffer strdup allocated: a zero byte, or other  *)
(* bytes of the heap and then a zero byte.                                 *)
Heap == {<<>>, <<"a">>}

(* mport_version_cmp(astr, bstr) when ha and hb lie behind the two         *)
(* buffers.                                                                *)
mport_version_cmp(astr, bstr, ha, hb) ==
    Bind(parse_version(astr), LAMBDA a :
    Bind(parse_version(bstr), LAMBDA b :
    Bind(cmp_ints(a.epoch, b.epoch), LAMBDA r1 :
       IF r1 # 0 THEN r1
       ELSE Bind(cmp_versions(a.version \o ha, b.version \o hb), LAMBDA r2 :
               IF r2 # 0 THEN r2 ELSE cmp_ints(a.revision, b.revision)))))

(* The version strings of the model: a base of digits, letters and dots,   *)
(* then nothing, a revision or an epoch.                                   *)
Versions ==
    {base \o suffix :
        base \in UNION {[1..n -> {"1", "a", "."}] : n \in 1..MaxBase},
        suffix \in {<<>>, <<"_", "1">>, <<",", "1">>}}

(* The values a call of mport_version_cmp(astr, bstr) can return.          *)
version_cmp_results(astr, bstr) ==
    {mport_version_cmp(astr, bstr, ha, hb) : ha \in Heap, hb \in Heap}

(* mport_version_cmp(a, b) and mport_version_cmp(b, a).                    *)
version_cmp_pair ==
    /\ vpc = "start"
    /\ \E r1 \in version_cmp_results(va, vb), r2 \in version_cmp_results(vb, va) :
          vres' = <<r1, r2>>
    /\ vpc' = "pair"
    /\ UNCHANGED <<va, vb, vc>>
    /\ UNCHANGED not_version_vars

(* mport_version_cmp(b, c) and mport_version_cmp(a, c) for a third string. *)
version_cmp_third ==
    /\ vpc = "pair"
    /\ \E c \in Versions :
       \E r3 \in version_cmp_results(vb, c), r4 \in version_cmp_results(va, c) :
          /\ vc' = c
          /\ vres' = vres \o <<r3, r4>>
    /\ vpc' = "triple"
    /\ UNCHANGED <<va, vb>>
    /\ UNCHANGED not_version_vars

InitVersion ==
    /\ InstallIdle
    /\ UpdateIdle
    /\ UpgradeIdle
    /\ AutoremoveIdle /\ LockIdle /\ ExtractIdle /\ AssetsIdle
    /\ vpc = "start"
    /\ va \in Versions
    /\ vb \in Versions
    /\ vc = <<>>
    /\ vres = <<>>

NextVersion ==
    \/ version_cmp_pair
    \/ version_cmp_third

SpecVersion == InitVersion /\ [][NextVersion]_vars

(* C19: mport_version_cmp(a, b) = -mport_version_cmp(b, a).                *)
C19_Antisymmetry ==
    vpc \in {"pair", "triple"} => vres[1] = 0 - vres[2]

(* C20: when mport_version_cmp(a, b) <= 0 and mport_version_cmp(b, c) <= 0 *)
(* then mport_version_cmp(a, c) <= 0.                                      *)
C20_Transitivity ==
    vpc = "triple" => ((vres[1] <= 0 /\ vres[3] <= 0) => vres[4] <= 0)

(* The index of the zero byte that ends the string of buffer buf: the      *)
(* first one.                                                              *)
terminator(buf) ==
    IF \E i \in 1..Len(buf) : buf[i] = NUL
    THEN CHOOSE i \in 1..Len(buf) : buf[i] = NUL /\ \A j \in 1..(i - 1) : buf[j] # NUL
    ELSE Len(buf) + 1

(* The loop of cmp_versions from the pointers i and j on, after n rounds:  *)
(* the pointers a and b and the number of rounds at the return.            *)
RECURSIVE cmp_versions_walk(_, _, _, _, _)
cmp_versions_walk(a, i, b, j, n) ==
    IF Byte(a, i) = NUL /\ Byte(b, j) = NUL THEN [a |-> i, b |-> j, rounds |-> n]
    ELSE Bind(sub(a, i), LAMBDA a_sub :
         Bind(sub(b, j), LAMBDA b_sub :
            IF cmp_ints(a_sub.val, b_sub.val) # 0
            THEN [a |-> a_sub.end, b |-> b_sub.end, rounds |-> n + 1]
            ELSE cmp_versions_walk(a, a_sub.end, b, b_sub.end, n + 1)))

(* C39: in cmp_versions the pointers a and b never move past the zero byte *)
(* that ends their string, whatever lies behind the buffers, and the loop  *)
(* returns after at most strlen(a) + strlen(b) rounds.  cmp_versions runs  *)
(* when the epochs of the two strings are equal.                           *)
C39_ReadStaysBeforeTerminator ==
    vpc = "pair" =>
       \A ha \in Heap, hb \in Heap :
          \A a \in {parse_version(va).version \o ha}, b \in {parse_version(vb).version \o hb} :
             cmp_ints(parse_version(va).epoch, parse_version(vb).epoch) = 0 =>
                \A w \in {cmp_versions_walk(a, 1, b, 1, 0)} :
                   /\ w.a <= terminator(a)
                   /\ w.b <= terminator(b)
                   /\ w.rounds <= (terminator(a) - 1) + (terminator(b) - 1)


-----------------------------------------------------------------------------
(* mport_version_require_check.  The positions of the code are C indexes,  *)
(* counted from 0, with -1 for "not found".                                *)

(* require[k] and s[k].                                                    *)
At(buf, k) == Byte(buf, k + 1)

(* The C string that starts at buf + k: the bytes up to the first NUL.     *)
cstring(buf, k) ==
    SubSeq(buf, k + 1,
           CHOOSE n \in k..Len(buf) :
              /\ n = Len(buf) \/ buf[n + 1] = NUL
              /\ \A j \in (k + 1)..n : buf[j] # NUL)

(* The C indexes at which the requirement has the character c.             *)
occurrences(require, c) == {i \in 0..(Len(require) - 1) : require[i + 1] = c}

(* Lines 133-153: greater[0], less[0], equal[0] are the first index of the *)
(* character, greater[1], less[1], equal[1] the last of the later ones.    *)
first_index(require, c) ==
    IF occurrences(require, c) = {} THEN -1
    ELSE CHOOSE i \in occurrences(require, c) : \A j \in occurrences(require, c) : i <= j

later_index(require, c) ==
    IF Cardinality(occurrences(require, c)) < 2 THEN -1
    ELSE CHOOSE i \in occurrences(require, c) : \A j \in occurrences(require, c) : j <= i

(* Line 163.                                                               *)
multi(require) ==
    \/ later_index(require, ">") > -1
    \/ later_index(require, "<") > -1
    \/ later_index(require, "=") > -1
    \/ first_index(require, ">") > -1 /\ first_index(require, "<") > -1

(* A comparison that reads ">=" as ">" and "<=" as "<".                    *)
require_satisfied_strictly(r, op) ==
    IF (op \in {"<", "<="} /\ r < 0) \/ (op \in {">", ">="} /\ r > 0) THEN 0 ELSE -1

(* (mport_version_cmp(...) op 0) ? 0 : -1 for the four operators.          *)
require_satisfied(r, op) ==
    CASE op = "<=" -> IF r <= 0 THEN 0 ELSE -1
      [] op = "<"  -> IF r < 0 THEN 0 ELSE -1
      [] op = ">=" -> IF r >= 0 THEN 0 ELSE -1
      [] op = ">"  -> IF r > 0 THEN 0 ELSE -1

(* Lines 170-185: the branch of a requirement that is not multi.  hp is    *)
(* the pair of heaps behind the two buffers of the call of                 *)
(* mport_version_cmp.                                                      *)
require_single(baseline, require, hp) ==
    IF At(require, 0) \in {"<", ">"}
    THEN IF At(require, 1) = "="
         THEN require_satisfied(
                 mport_version_cmp(baseline, cstring(require, 2), hp[1], hp[2]),
                 At(require, 0) \o "=")
         ELSE require_satisfied(
                 mport_version_cmp(baseline, cstring(require, 1), hp[1], hp[2]),
                 At(require, 0))
    ELSE MPORT_ERR_FATAL

(* One branch of lines 192-264: s is cut at the index p of the operator    *)
(* kind and the baseline is compared with the string behind it.            *)
require_second(baseline, s, p, kind, hp) ==
    Bind(cut(s, p + 1), LAMBDA s1 :
       [s   |-> s1,
        ret |-> IF At(s1, p + 1) = "="
                THEN require_satisfied(
                        mport_version_cmp(baseline, cstring(s1, p + 2), hp[1], hp[2]),
                        kind \o "=")
                ELSE require_satisfied(
                        mport_version_cmp(baseline, cstring(s1, p + 1), hp[1], hp[2]),
                        kind)])

(* Lines 192-264: the chain of the four branches.                          *)
require_second_bound(baseline, s, g, l, hp) ==
    IF l[2] > 0 THEN require_second(baseline, s, l[2], "<", hp)
    ELSE IF l[1] > g[1] THEN require_second(baseline, s, l[1], "<", hp)
    ELSE IF g[2] > 0 THEN require_second(baseline, s, g[2], ">", hp)
    ELSE IF g[1] > l[1] THEN require_second(baseline, s, g[1], ">", hp)
    ELSE [s |-> s, ret |-> 0]

(* Lines 266-282: the check after the chain.                               *)
require_first_bound(baseline, s, ret0, g, l, hp) ==
    IF g[1] > 0
    THEN require_satisfied(
            mport_version_cmp(baseline, cstring(cut(s, g[1] + 1), g[1] + 1), hp[1], hp[2]), ">")
    ELSE IF l[1] > 0
    THEN require_satisfied(
            mport_version_cmp(baseline, cstring(cut(s, l[1] + 1), l[1] + 1), hp[1], hp[2]), "<")
    ELSE ret0

(* Lines 186-286: the branch of a multi requirement on s = strdup(require). *)
require_multi(baseline, require, hp1, hp2) ==
    Bind(<<first_index(require, ">"), later_index(require, ">")>>, LAMBDA g :
    Bind(<<first_index(require, "<"), later_index(require, "<")>>, LAMBDA l :
    Bind(require_second_bound(baseline, require \o <<NUL>>, g, l, hp1), LAMBDA st :
       IF st.ret = -1 THEN -1
       ELSE require_first_bound(baseline, st.s, st.ret, g, l, hp2))))

(* mport_version_require_check(baseline, require) when the heaps hp1 and   *)
(* hp2 lie behind the buffers of its calls of mport_version_cmp.           *)
mport_version_require_check(baseline, require, hp1, hp2) ==
    IF Len(require) < 2 THEN 1
    ELSE IF /\ first_index(require, ">") = -1
            /\ first_index(require, "<") = -1
            /\ first_index(require, "=") = -1
    THEN MPORT_ERR_FATAL
    ELSE IF ~multi(require) THEN require_single(baseline, require, hp1)
    ELSE require_multi(baseline, require, hp1, hp2)

(* The values a call of mport_version_require_check can return.            *)
require_check_results(baseline, require) ==
    {mport_version_require_check(baseline, require, hp1, hp2) :
        hp1 \in Heap \X Heap, hp2 \in Heap \X Heap}

(* The versions the requirements of the model name, in ascending order.    *)
RequireVersions == {<<"1">>, <<"1", "1">>, <<"a">>}

LowerOps == {<<">">>, <<">", "=">>}

UpperOps == {<<"<">>, <<"<", "=">>}

(* The requirements with one bound.                                        *)
SingleBounds == {op \o v : op \in LowerOps \cup UpperOps, v \in RequireVersions}

(* The requirements with a lower and an upper bound, in both orders.       *)
DoubleBounds ==
    {lo \o lv \o up \o uv : lo \in LowerOps, lv \in RequireVersions,
                            up \in UpperOps, uv \in RequireVersions} \cup
    {up \o uv \o lo \o lv : lo \in LowerOps, lv \in RequireVersions,
                            up \in UpperOps, uv \in RequireVersions}

(* Strings that are not one or two bounds.                                 *)
Malformed ==
    {<<"|">>, <<"1", "1">>, <<"=", "1">>, <<"=", "=", "1">>, <<"1", "=">>,
     <<"1", "<", "1", "<", "1">>, <<"1", ">", "1", ">", "1">>, <<"1", "<", "1", ">", "1">>}

Requirements == SingleBounds \cup DoubleBounds \cup Malformed

(* mport_version_require_check(va, vb).                                    *)
version_require_check ==
    /\ vpc = "require"
    /\ \E r \in require_check_results(va, vb) : vres' = <<r>>
    /\ vpc' = "checked"
    /\ UNCHANGED <<va, vb, vc>>
    /\ UNCHANGED not_version_vars

(* parse_version(vb, &v): v.version as a C string, v.revision, v.epoch.    *)
version_parse ==
    /\ vpc = "require"
    /\ \E v \in {parse_version(vb)} :
          vres' = <<cstring(v.version, 0), v.revision, v.epoch>>
    /\ vpc' = "parsed"
    /\ UNCHANGED <<va, vb, vc>>
    /\ UNCHANGED not_version_vars

InitRequire ==
    /\ InstallIdle
    /\ UpdateIdle
    /\ UpgradeIdle
    /\ AutoremoveIdle /\ LockIdle /\ ExtractIdle /\ AssetsIdle
    /\ vpc = "require"
    /\ va \in Versions
    /\ vb \in Requirements
    /\ vc = <<>>
    /\ vres = <<>>

NextRequire ==
    \/ version_require_check
    \/ version_parse

SpecRequire == InitRequire /\ [][NextRequire]_vars

(* Whether a result r of mport_version_cmp(baseline, v) satisfies op v.    *)
Holds(r, op) ==
    CASE op = <<"<">>      -> r < 0
      [] op = <<"<", "=">> -> r <= 0
      [] op = <<">">>      -> r > 0
      [] op = <<">", "=">> -> r >= 0

(* What a requirement of the bound lo lv and the bound up uv asks of the   *)
(* results rl and ru of comparing the baseline with lv and with uv.        *)
Expected(lo, rl, up, ru) == IF Holds(rl, lo) /\ Holds(ru, up) THEN 0 ELSE -1

(* C21: for a requirement of two bounds the result is 0 exactly when the   *)
(* baseline satisfies the lower and the upper bound, and -1 when it        *)
(* violates one of them, also when it is below the lower bound.            *)
C21_DoubleBoundChecksBoth ==
    vpc = "checked" =>
       \A lo \in LowerOps, lv \in RequireVersions, up \in UpperOps, uv \in RequireVersions :
          vb \in {lo \o lv \o up \o uv, up \o uv \o lo \o lv} =>
             \E rl \in version_cmp_results(va, lv), ru \in version_cmp_results(va, uv) :
                vres[1] = Expected(lo, rl, up, ru)

C23_MalformedIsError ==
    (vpc = "checked" /\ vb \in Malformed) => vres[1] > 0

(* C26: the base parse_version leaves has no '<' and no '>': it ends at    *)
(* the first '<' or '>' of the input.                                      *)
C26_BaseEndsAtFirstBound ==
    vpc = "parsed" => \A i \in 1..Len(vres[1]) : vres[1][i] \notin {"<", ">"}


-----------------------------------------------------------------------------
(* The order of versions as a comparison of an epoch, a sequence of tokens *)
(* and a revision.                                                         *)

(* The base of a version string: what stands before its revision and its   *)
(* epoch.                                                                  *)
BaseOf(v) ==
    SubSeq(v, 1, CHOOSE n \in 0..Len(v) :
                    /\ n = Len(v) \/ v[n + 1] \in {"_", ","}
                    /\ \A j \in 1..n : v[j] \notin {"_", ","})

(* The number behind the last c of the string, 0 without c.                *)
NumberBehind(v, c) == IF rindex(v, c) = 0 THEN 0 ELSE strtol(v, rindex(v, c) + 1).val

(* The tokens of a base: runs of '.' and '+' separate, a run of digits is  *)
(* its number, another character its code.                                 *)
RECURSIVE TokensOf(_)
TokensOf(base) ==
    IF base = <<>> THEN <<>>
    ELSE IF Head(base) \in {".", "+"} THEN TokensOf(Tail(base))
    ELSE IF Head(base) \in Digits
    THEN <<strtol(base, 1).val>> \o TokensOf(SubSeq(base, strtol(base, 1).end, Len(base)))
    ELSE <<CharCode(Head(base))>> \o TokensOf(Tail(base))

(* The token at position i, the shorter sequence padded with zeros.        *)
TokenAt(t, i) == IF i <= Len(t) THEN t[i] ELSE 0

(* The comparison of two token sequences at their first difference.        *)
CompareTokens(ta, tb) ==
    IF \A i \in 1..(Len(ta) + Len(tb)) : TokenAt(ta, i) = TokenAt(tb, i) THEN 0
    ELSE cmp_ints(TokenAt(ta, CHOOSE i \in 1..(Len(ta) + Len(tb)) :
                                 /\ TokenAt(ta, i) # TokenAt(tb, i)
                                 /\ \A j \in 1..(i - 1) : TokenAt(ta, j) = TokenAt(tb, j)),
                  TokenAt(tb, CHOOSE i \in 1..(Len(ta) + Len(tb)) :
                                 /\ TokenAt(ta, i) # TokenAt(tb, i)
                                 /\ \A j \in 1..(i - 1) : TokenAt(ta, j) = TokenAt(tb, j)))

(* Epoch first, then the tokens of the base, then the revision.            *)
CompareVersions(a, b) ==
    IF NumberBehind(a, ",") # NumberBehind(b, ",")
    THEN cmp_ints(NumberBehind(a, ","), NumberBehind(b, ","))
    ELSE IF CompareTokens(TokensOf(BaseOf(a)), TokensOf(BaseOf(b))) # 0
    THEN CompareTokens(TokensOf(BaseOf(a)), TokensOf(BaseOf(b)))
    ELSE cmp_ints(NumberBehind(a, "_"), NumberBehind(b, "_"))

(* C25: mport_version_cmp decides by the epoch first, then by the tokens   *)
(* of the base, the shorter sequence padded with zero tokens, then by the  *)
(* revision.                                                               *)
C25_EpochBaseRevision ==
    vpc \in {"pair", "triple"} => vres[1] = CompareVersions(va, vb)

(* C24: with no package installed mport_upgrade reports MPORT_ERR_WARN,    *)
(* not a fatal error.                                                      *)
C24_NoPackagesIsWarning ==
    (gpc = "done" /\ packs_orig = <<>>) => gret = <<MPORT_ERR_WARN>>

-----------------------------------------------------------------------------
(* The asset walks of do_pre_install, do_actual_install and run_postexec   *)
(* on the file system.  Paths, data and commands are strings: sequences of *)
(* characters.  The database side of the three phases is the installer     *)
(* above.                                                                  *)

not_assets_vars ==
    <<install_vars, update_vars, upgrade_vars, autoremove_vars, lock_vars, extract_vars,
      version_vars, list_vars>>

(* The longest plist of the walks.                                         *)
MaxWalk == 2

(* e->data == NULL.                                                        *)
NULL == <<"NULL">>

(* pkg->prefix.                                                            *)
Prefix == <<"/", "p">>

(* The values of mport->root: none, or a directory.                        *)
Roots == {<<>>, <<"/", "r">>}

DotSample == <<".", "s", "a", "m", "p", "l", "e">>

(* char file[FILENAME_MAX] before anything was written to it, and what can *)
(* be read from it then.                                                   *)
Uninitialised == <<"uninitialised">>

Garbage == {<<>>, <<"?">>}

(* The plist entries of the walks.  No absolute data is shorter than a     *)
(* root.                                                                   *)
WalkEntries ==
    {[type |-> "ASSET_CWD", data |-> d] : d \in {NULL, <<"/", "d">>}} \cup
    {[type |-> "ASSET_FILE", data |-> d] : d \in {<<"f">>, <<"/", "a", "/", "f">>}} \cup
    {[type |-> "ASSET_SAMPLE", data |-> d] :
        d \in {<<"c">> \o DotSample, <<"c">> \o DotSample \o <<" ", "t">>}} \cup
    {[type |-> t, data |-> <<"x">>] : t \in {"ASSET_EXEC", "ASSET_PREEXEC", "ASSET_POSTEXEC"}} \cup
    {[type |-> "ASSET_TOUCH", data |-> <<"f">>],
     [type |-> "ASSET_KLD", data |-> <<"k">>],
     [type |-> "ASSET_DESKTOP_FILE_UTILS", data |-> NULL]}

WalkPlists == UNION {[1..n -> WalkEntries] : n \in 0..MaxWalk}

(* snprintf(file, FILENAME_MAX, "%s%s/%s", root, cwd, data).               *)
path_under(root, cwd, data) == root \o cwd \o <<"/">> \o data

(* The index of the first blank of the string, 0 without one.              *)
first_blank(str) ==
    IF \E i \in 1..Len(str) : str[i] = " "
    THEN CHOOSE i \in 1..Len(str) : str[i] = " " /\ \A j \in 1..(i - 1) : str[j] # " "
    ELSE 0

(* Lines 575-583, and what strsep leaves of its input: the string ends at  *)
(* its first blank.                                                        *)
truncate_at_blank(str) ==
    IF first_blank(str) = 0 THEN str ELSE SubSeq(str, 1, first_blank(str) - 1)

(* The tokens strsep finds between blanks, the empty ones left out.        *)
RECURSIVE tokens(_)
tokens(str) ==
    IF str = <<>> THEN <<>>
    ELSE IF Head(str) = " " THEN tokens(Tail(str))
    ELSE <<truncate_at_blank(str)>> \o
         tokens(SubSeq(str, Len(truncate_at_blank(str)) + 1, Len(str)))

(* parse_sample: argv holds the first three tokens.                        *)
parse_sample(input) ==
    SubSeq(tokens(input), 1, IF Len(tokens(input)) < 3 THEN Len(tokens(input)) ELSE 3)

(* strcasestr(str, pat) for strings in lower case: the index of the first  *)
(* occurrence, 0 for NULL.                                                 *)
strcasestr(str, pat) ==
    IF \E i \in 1..(Len(str) - Len(pat) + 1) : SubSeq(str, i, i + Len(pat) - 1) = pat
    THEN CHOOSE i \in 1..(Len(str) - Len(pat) + 1) :
            /\ SubSeq(str, i, i + Len(pat) - 1) = pat
            /\ \A j \in 1..(i - 1) : SubSeq(str, j, j + Len(pat) - 1) # pat
    ELSE 0

(* mport_file_exists(path) on the files fs.                                *)
mport_file_exists(fs, path) == \E f \in fs : f.path = path

(* mport_copy_file(from, to): the file to is written anew.                 *)
mport_copy_file(fs, from, to) ==
    {f \in fs : f.path # to} \cup {[path |-> to, by |-> "sample"]}

(* The copy of create_sample_file: only when the target does not exist.    *)
copy_if_absent(fs, from, to, copy_ok) ==
    IF ~mport_file_exists(fs, to)
    THEN IF copy_ok THEN [fs |-> mport_copy_file(fs, from, to), ret |-> MPORT_OK]
         ELSE [fs |-> fs, ret |-> MPORT_ERR_FATAL]
    ELSE [fs |-> fs, ret |-> MPORT_OK]

(* A create_sample_file that copies whether or not the target exists.      *)
create_sample_file_always(root, cwd, file, fs, copy_ok) ==
    Bind(truncate_at_blank(IF file[1] # "/" THEN path_under(root, cwd, file) ELSE file),
         LAMBDA nonSample :
            [fs  |-> mport_copy_file(fs, file,
                        IF Len(parse_sample(file)) >= 2
                        THEN path_under(root, cwd, parse_sample(file)[2])
                        ELSE SubSeq(nonSample, 1, strcasestr(nonSample, DotSample) - 1)),
             ret |-> MPORT_OK])

(* create_sample_file(mport, cwd, file): the files afterwards and the      *)
(* return value.                                                           *)
create_sample_file(root, cwd, file, fs, copy_ok) ==
    Bind(IF file[1] # "/" THEN path_under(root, cwd, file) ELSE file, LAMBDA nonSample :
    Bind(parse_sample(nonSample), LAMBDA fileargv :
       IF Len(fileargv) >= 2
       THEN copy_if_absent(fs, fileargv[1],
                           IF fileargv[2][1] = "/" THEN fileargv[2]
                           ELSE path_under(root, cwd, fileargv[2]),
                           copy_ok)
       ELSE IF strcasestr(truncate_at_blank(nonSample), DotSample) # 0
       THEN copy_if_absent(fs, file,
                           SubSeq(nonSample, 1,
                                  strcasestr(truncate_at_blank(nonSample), DotSample) - 1),
                           copy_ok)
       ELSE [fs |-> fs, ret |-> MPORT_OK]))

(* Lines 702-816: the assets row of an entry of the types of the model.    *)
(* A file type binds filePtr + strlen(mport->root).                        *)
asset_row(root, file, e) ==
    [type |-> e.type,
     data |-> IF e.type \in FileTypes THEN SubSeq(file, Len(root) + 1, Len(file))
              ELSE e.data]

(* A command that was run or a file that was written: the phase, the index *)
(* of the entry in the asset list of the phase, the entry, cwd and file.   *)
Ran(phase, at, what, e, cwd, file) ==
    [phase |-> phase, at |-> at, what |-> what, entry |-> e, cwd |-> cwd, file |-> file]

(* strlcpy(cwd, e->data == NULL ? pkg->prefix : e->data, sizeof(cwd)).     *)
new_cwd(e) == IF e.data = NULL THEN Prefix ELSE e.data

(* A hook that was run: a record of the log with no entry, no directory and *)
(* no file.                                                                *)
Hook(phase, what) ==
    Ran(phase, 0, what, [type |-> "none", data |-> NULL], NULL, NULL)

(* The hooks of the sequence names that ran when step f failed: those up   *)
(* to f, all of them when f is not one of them.                            *)
HooksUpTo(phase, names, f) ==
    SubSeq([i \in DOMAIN names |-> Hook(phase, names[i])], 1,
           IF \E i \in DOMAIN names : names[i] = f
           THEN CHOOSE i \in DOMAIN names : names[i] = f
           ELSE Len(names))

(* A do_pre_install that runs pkg-install PRE-INSTALL before mtree.        *)
pre_install_hooks_pkg_install_first == <<"pkg-install", "mtree", "lua">>

(* Lines 124-140: run_mtree, mport_lua_script_run(MPORT_LUA_PRE_INSTALL),  *)
(* run_pkg_install("PRE-INSTALL").                                         *)
pre_install_hooks == <<"mtree", "lua", "pkg-install">>

(* Lines 898-908: mport_pkg_message_display,                               *)
(* mport_lua_script_run(MPORT_LUA_POST_INSTALL),                           *)
(* run_pkg_install("POST-INSTALL"), mport_start_stop_service.              *)
post_install_hooks == <<"message", "lua", "pkg-install", "service">>

(* do_pre_install up to its loop, lines 124-157: a hook that fails ends    *)
(* the install, and so does a failing asset list query or chdir.           *)
pre_install_begin ==
    /\ wpc = "start"
    /\ \E f \in {"none", "mtree", "lua", "pkg-install", "assetlist", "chdir"} :
          /\ wlog' = wlog \o HooksUpTo("PREINSTALL", pre_install_hooks, f)
          /\ IF f = "none"
             THEN /\ wpc' = "pre"
                  /\ wlist' = mport_bundle_read_get_assetlist(wplist, "PREINSTALL")
                  /\ wcwd' = Prefix
                  /\ UNCHANGED wret
             ELSE /\ wpc' = "done"
                  /\ wret' = <<MPORT_ERR_FATAL>>
                  /\ UNCHANGED <<wlist, wcwd>>
    /\ UNCHANGED <<wroot, wplist, wcursor, wfile, wfs, wrows>>
    /\ UNCHANGED not_assets_vars

(* One iteration of the loop of do_pre_install, lines 159-176.             *)
pre_install_entry ==
    /\ wpc = "pre"
    /\ wcursor <= Len(wlist)
    /\ \E ok \in BOOLEAN, handed \in (IF wfile = Uninitialised THEN Garbage ELSE {wfile}) :
       \E e \in {wlist[wcursor]} :
          /\ wcwd' = IF e.type = "ASSET_CWD" THEN new_cwd(e) ELSE wcwd
          /\ wlog' = IF e.type = "ASSET_PREEXEC"
                     THEN Append(wlog, Ran("PREINSTALL", wcursor, "exec", e, wcwd, handed))
                     ELSE wlog
          /\ IF ok THEN wcursor' = wcursor + 1 /\ UNCHANGED <<wpc, wret>>
             ELSE wpc' = "done" /\ wret' = <<MPORT_ERR_FATAL>> /\ UNCHANGED wcursor
    /\ UNCHANGED <<wroot, wplist, wlist, wfile, wfs, wrows>>
    /\ UNCHANGED not_assets_vars

(* The end of do_pre_install and do_actual_install up to its loop, lines   *)
(* 178-181 and 454-487.                                                    *)
actual_install_begin ==
    /\ wpc = "pre"
    /\ wcursor > Len(wlist)
    /\ \E ok \in BOOLEAN :
          IF ok
          THEN /\ wpc' = "actual"
               /\ wlist' = mport_bundle_read_get_assetlist(wplist, "ACTUALINSTALL")
               /\ wcursor' = 1
               /\ wcwd' = Prefix
               /\ wfile' = Uninitialised
               /\ UNCHANGED wret
          ELSE /\ wpc' = "done"
               /\ wret' = <<MPORT_ERR_FATAL>>
               /\ UNCHANGED <<wlist, wcursor, wcwd, wfile>>
    /\ UNCHANGED <<wroot, wplist, wfs, wrows, wlog>>
    /\ UNCHANGED not_assets_vars

(* goto ERROR in do_actual_install.                                        *)
actual_install_ERROR ==
    /\ wpc' = "done"
    /\ wret' = <<MPORT_ERR_FATAL>>
    /\ UNCHANGED <<wcursor, wrows>>

(* The end of an iteration of the loop of do_actual_install: the row of    *)
(* the entry is inserted.                                                  *)
actual_install_next(file) ==
    /\ wrows' = Append(wrows, asset_row(wroot, file, wlist[wcursor]))
    /\ wcursor' = wcursor + 1
    /\ UNCHANGED <<wpc, wret>>

(* Lines 492-496: ASSET_CWD.                                               *)
actual_install_cwd ==
    /\ wpc = "actual"
    /\ wcursor <= Len(wlist)
    /\ wlist[wcursor].type = "ASSET_CWD"
    /\ wcwd' = new_cwd(wlist[wcursor])
    /\ \E ok \in BOOLEAN : IF ok THEN actual_install_next(wfile) ELSE actual_install_ERROR
    /\ UNCHANGED <<wroot, wplist, wlist, wfile, wfs, wlog>>
    /\ UNCHANGED not_assets_vars

(* Lines 551-554: ASSET_EXEC.                                              *)
actual_install_exec ==
    /\ wpc = "actual"
    /\ wcursor <= Len(wlist)
    /\ wlist[wcursor].type = "ASSET_EXEC"
    /\ \E ok \in BOOLEAN, handed \in (IF wfile = Uninitialised THEN Garbage ELSE {wfile}) :
          /\ wlog' = Append(wlog, Ran("ACTUALINSTALL", wcursor, "exec", wlist[wcursor],
                                      wcwd, handed))
          /\ IF ok THEN actual_install_next(wfile) ELSE actual_install_ERROR
    /\ UNCHANGED <<wroot, wplist, wlist, wcwd, wfile, wfs>>
    /\ UNCHANGED not_assets_vars

(* mport_bundle_read_extract_next_file with the pathname file: the file is *)
(* written anew.                                                           *)
extract_to(fs, file) == {f \in fs : f.path # file} \cup {[path |-> file, by |-> "extract"]}

(* Lines 569-583: the path of a file entry.                                *)
extract_path(root, cwd, e) ==
    Bind(IF e.data[1] = "/" THEN e.data ELSE path_under(root, cwd, e.data), LAMBDA file :
       IF e.type = "ASSET_SAMPLE" THEN truncate_at_blank(file) ELSE file)

(* Lines 555-696: the file types.  An error before the extraction leaves   *)
(* the files alone; one after it, or in create_sample_file, leaves what    *)
(* was written.                                                            *)
actual_install_file ==
    /\ wpc = "actual"
    /\ wcursor <= Len(wlist)
    /\ wlist[wcursor].type \in FileTypes
    /\ \E e \in {wlist[wcursor]}, early \in BOOLEAN, ok \in BOOLEAN, copy_ok \in BOOLEAN :
       \E file \in {extract_path(wroot, wcwd, e)} :
          /\ wfile' = file
          /\ IF early
             THEN /\ actual_install_ERROR
                  /\ UNCHANGED <<wfs, wlog>>
             ELSE \E made \in {IF e.type = "ASSET_SAMPLE"
                               THEN create_sample_file(wroot, wcwd, e.data,
                                                       extract_to(wfs, file), copy_ok)
                               ELSE [fs |-> extract_to(wfs, file), ret |-> MPORT_OK]} :
                     /\ wfs' = made.fs
                     /\ wlog' = Append(wlog, Ran("ACTUALINSTALL", wcursor, "extract", e,
                                                 wcwd, file))
                     /\ IF made.ret = MPORT_OK /\ ok
                        THEN actual_install_next(file)
                        ELSE actual_install_ERROR
    /\ UNCHANGED <<wroot, wplist, wlist, wcwd>>
    /\ UNCHANGED not_assets_vars

(* Lines 697-699: an entry of another type gets its row only.              *)
actual_install_other ==
    /\ wpc = "actual"
    /\ wcursor <= Len(wlist)
    /\ wlist[wcursor].type \notin FileTypes \cup {"ASSET_CWD", "ASSET_EXEC"}
    /\ \E ok \in BOOLEAN : IF ok THEN actual_install_next(wfile) ELSE actual_install_ERROR
    /\ UNCHANGED <<wroot, wplist, wlist, wcwd, wfile, wfs, wlog>>
    /\ UNCHANGED not_assets_vars

(* The end of do_actual_install, lines 826-842, and run_postexec up to its *)
(* loop, lines 921-927.                                                    *)
run_postexec_begin ==
    /\ wpc = "actual"
    /\ wcursor > Len(wlist)
    /\ \E committed \in BOOLEAN, ok \in BOOLEAN :
          /\ wlog' = IF committed THEN Append(wlog, Hook("ACTUALINSTALL", "commit"))
                     ELSE wlog
          /\ IF committed /\ ok
             THEN /\ wpc' = "post"
                  /\ wlist' = mport_bundle_read_get_assetlist(wplist, "POSTINSTALL")
                  /\ wcursor' = 1
                  /\ wcwd' = Prefix
                  /\ wfile' = Uninitialised
                  /\ UNCHANGED wret
             ELSE /\ wpc' = "done"
                  /\ wret' = <<MPORT_ERR_FATAL>>
                  /\ UNCHANGED <<wlist, wcursor, wcwd, wfile>>
    /\ UNCHANGED <<wroot, wplist, wfs, wrows>>
    /\ UNCHANGED not_assets_vars

(* Lines 931-938: the file of an entry of run_postexec.                    *)
postexec_file(root, e) ==
    IF e.data = NULL THEN root
    ELSE IF e.data[1] = "/" THEN root \o e.data
    ELSE path_under(root, Prefix, e.data)

(* Lines 940-1016: what the entry runs, with the cwd of before the entry.  *)
(* tool tells whether update-desktop-database is installed.                *)
postexec_runs(at, e, cwd, file, tool) ==
    CASE e.type = "ASSET_POSTEXEC" -> <<Ran("POSTINSTALL", at, "exec", e, cwd, file)>>
      [] e.type = "ASSET_KLD"      -> <<Ran("POSTINSTALL", at, "kldxref", e, cwd, file)>>
      [] e.type = "ASSET_TOUCH"    -> <<Ran("POSTINSTALL", at, "touch", e, cwd, file)>>
      [] e.type = "ASSET_DESKTOP_FILE_UTILS" /\ tool ->
            <<Ran("POSTINSTALL", at, "update-desktop-database", e, cwd, file)>>
      [] OTHER -> <<>>

(* One iteration of the loop of run_postexec, lines 929-1017.              *)
run_postexec_entry ==
    /\ wpc = "post"
    /\ wcursor <= Len(wlist)
    /\ \E e \in {wlist[wcursor]}, tool \in BOOLEAN :
       \E ok \in (IF e.type = "ASSET_DESKTOP_FILE_UTILS" /\ ~tool THEN {TRUE} ELSE BOOLEAN) :
          /\ wfile' = postexec_file(wroot, e)
          /\ wcwd' = IF e.type = "ASSET_CWD" THEN new_cwd(e) ELSE wcwd
          /\ wlog' = wlog \o postexec_runs(wcursor, e, wcwd, postexec_file(wroot, e), tool)
          /\ IF ok THEN wcursor' = wcursor + 1 /\ UNCHANGED <<wpc, wret>>
             ELSE wpc' = "done" /\ wret' = <<MPORT_ERR_FATAL>> /\ UNCHANGED wcursor
    /\ UNCHANGED <<wroot, wplist, wlist, wfs, wrows>>
    /\ UNCHANGED not_assets_vars

(* Lines 1019-1022, and the rest of do_post_install, lines 898-908: the    *)
(* message, the lua script, pkg-install POST-INSTALL, the services and     *)
(* mark_complete.  The result of mport_start_stop_service is not looked    *)
(* at.                                                                     *)
run_postexec_end ==
    /\ wpc = "post"
    /\ wcursor > Len(wlist)
    /\ \E f \in {"none", "message", "lua", "pkg-install", "mark_complete"} :
          /\ wlog' = wlog \o HooksUpTo("POSTINSTALL", post_install_hooks, f)
          /\ wret' = IF f = "none" THEN <<MPORT_OK>> ELSE <<MPORT_ERR_FATAL>>
    /\ wpc' = "done"
    /\ UNCHANGED <<wroot, wplist, wlist, wcursor, wcwd, wfile, wfs, wrows>>
    /\ UNCHANGED not_assets_vars

(* The configuration files the administrator may have in place before the  *)
(* install: the targets of the samples of the model in both directories.   *)
UserFiles(root) ==
    {[path |-> path_under(root, d, n), by |-> "user"] :
        d \in {Prefix, <<"/", "d">>}, n \in {<<"c">>, <<"t">>}}

InitAssets ==
    /\ InstallIdle
    /\ UpdateIdle
    /\ UpgradeIdle
    /\ AutoremoveIdle /\ LockIdle /\ ExtractIdle /\ VersionIdle
    /\ wpc = "start"
    /\ wroot \in Roots
    /\ wplist \in WalkPlists
    /\ wlist = <<>>
    /\ wcursor = 1
    /\ wcwd = Uninitialised
    /\ wfile = Uninitialised
    /\ wfs \in {{}, UserFiles(wroot)}
    /\ wrows = <<>>
    /\ wlog = <<>>
    /\ wret = <<>>

NextAssets ==
    \/ pre_install_begin
    \/ pre_install_entry
    \/ actual_install_begin
    \/ actual_install_cwd
    \/ actual_install_exec
    \/ actual_install_file
    \/ actual_install_other
    \/ run_postexec_begin
    \/ run_postexec_entry
    \/ run_postexec_end

SpecAssets == InitAssets /\ [][NextAssets]_vars

(* The asset list of a phase of the walk.                                  *)
PhaseList(phase) == mport_bundle_read_get_assetlist(wplist, phase)

(* The index of the last ASSET_CWD entry before the entry at of the list,  *)
(* 0 without one.                                                          *)
LastCwd(list, at) ==
    IF \E j \in 1..(at - 1) : list[j].type = "ASSET_CWD"
    THEN CHOOSE j \in 1..(at - 1) :
            /\ list[j].type = "ASSET_CWD"
            /\ \A k \in (j + 1)..(at - 1) : list[k].type # "ASSET_CWD"
    ELSE 0

(* The directory in force at the entry at of the list: the argument of the *)
(* last ASSET_CWD before it, the prefix without one or without argument.   *)
DirectoryAt(list, at) ==
    IF LastCwd(list, at) = 0 THEN Prefix
    ELSE IF list[LastCwd(list, at)].data = NULL THEN Prefix
    ELSE list[LastCwd(list, at)].data

Relative(data) == data # NULL /\ data[1] # "/"

(* C27: the row of a file entry holds the path the file was extracted at   *)
(* without the root: cwd/data for relative data and data itself for data   *)
(* that starts with '/', whatever the root is.                             *)
C27_RowIsPathWithoutRoot ==
    \A k \in DOMAIN wlog :
       (wlog[k].what = "extract" /\ wlog[k].at <= Len(wrows)) =>
          wrows[wlog[k].at].data =
             IF Relative(wlog[k].entry.data)
             THEN path_under(<<>>, wlog[k].cwd, truncate_at_blank(wlog[k].entry.data))
             ELSE truncate_at_blank(wlog[k].entry.data)

(* C28: when the walks have returned MPORT_OK, kldxref was run in the      *)
(* post-install phase for every ASSET_KLD entry of the plist and, with the *)
(* tool installed, update-desktop-database for every                       *)
(* ASSET_DESKTOP_FILE_UTILS entry: such an entry is in the list of the     *)
(* phase.                                                                  *)
C28_KldAndDesktopRunInPostInstall ==
    (wpc = "done" /\ wret = <<MPORT_OK>>) =>
       \A i \in DOMAIN wplist :
          wplist[i].type \in {"ASSET_KLD", "ASSET_DESKTOP_FILE_UTILS"} =>
             /\ \E j \in DOMAIN PhaseList("POSTINSTALL") :
                   PhaseList("POSTINSTALL")[j] = wplist[i]
             /\ wplist[i].type = "ASSET_KLD" =>
                   \E k \in DOMAIN wlog : /\ wlog[k].phase = "POSTINSTALL"
                                          /\ wlog[k].what = "kldxref"
                                          /\ wlog[k].entry = wplist[i]

(* C29: in each phase the cwd of a command or an extraction is the         *)
(* directory in force at its entry, and the file of an entry with relative *)
(* data, extracted or handed to a command, lies in that directory under    *)
(* the root.                                                               *)
C29_PathsResolveAgainstLastCwd ==
    \A k \in {i \in DOMAIN wlog : wlog[i].at > 0} :
       /\ wlog[k].cwd = DirectoryAt(PhaseList(wlog[k].phase), wlog[k].at)
       /\ (wlog[k].what # "exec" /\ Relative(wlog[k].entry.data)) =>
             wlog[k].file =
                path_under(wroot, DirectoryAt(PhaseList(wlog[k].phase), wlog[k].at),
                           truncate_at_blank(wlog[k].entry.data))

(* C30: no step replaces or removes a file that exists: a file a sample    *)
(* copy writes has a path at which no file was, and when an ASSET_SAMPLE   *)
(* entry got its row its target exists.                                    *)
C30_ExistingTargetIsKept ==
    [][/\ \A f \in wfs : f.by \in {"user", "sample"} => f \in wfs'
       /\ \A g \in wfs' \ wfs : g.by = "sample" => \A f \in wfs : f.path # g.path
       /\ (Len(wrows') > Len(wrows) /\ wlist[wcursor].type = "ASSET_SAMPLE") =>
             \E g \in wfs' :
                g.path = IF Len(parse_sample(wlist[wcursor].data)) >= 2
                         THEN path_under(wroot, wcwd, parse_sample(wlist[wcursor].data)[2])
                         ELSE path_under(wroot, wcwd,
                                         SubSeq(wlist[wcursor].data, 1,
                                                strcasestr(wlist[wcursor].data, DotSample) - 1))]_vars

(* C30 witness: an ASSET_SAMPLE entry was installed and got its row while  *)
(* the administrator's file was at its target, and the file is still the   *)
(* administrator's.                                                        *)
C30_Witness ==
    \E k \in DOMAIN wlog :
       /\ wlog[k].what = "extract"
       /\ wlog[k].entry.type = "ASSET_SAMPLE"
       /\ wlog[k].at <= Len(wrows)
       /\ [path |-> path_under(wroot, wlog[k].cwd, <<"c">>), by |-> "user"] \in wfs
       /\ wlog[k].entry.data = <<"c">> \o DotSample

(* The place of a record of the log in the order of one install: the      *)
(* three hooks of do_pre_install, the PreExec commands, the entries of     *)
(* do_actual_install, the commit, the commands of run_postexec, the four   *)
(* hooks of do_post_install.                                               *)
Rank(l) ==
    CASE l.phase = "PREINSTALL" /\ l.what = "mtree"        -> 1
      [] l.phase = "PREINSTALL" /\ l.what = "lua"          -> 2
      [] l.phase = "PREINSTALL" /\ l.what = "pkg-install"  -> 3
      [] l.phase = "PREINSTALL" /\ l.what = "exec"         -> 4
      [] l.phase = "ACTUALINSTALL" /\ l.what # "commit"    -> 5
      [] l.phase = "ACTUALINSTALL" /\ l.what = "commit"    -> 6
      [] l.phase = "POSTINSTALL" /\ l.what = "message"     -> 8
      [] l.phase = "POSTINSTALL" /\ l.what = "lua"         -> 9
      [] l.phase = "POSTINSTALL" /\ l.what = "pkg-install" -> 10
      [] l.phase = "POSTINSTALL" /\ l.what = "service"     -> 11
      [] OTHER                                             -> 7

(* C33: the hooks, commands and extractions of one install are in this     *)
(* order, each at most once: mtree, the pre-install lua script,            *)
(* pkg-install PRE-INSTALL, the PreExec commands in plist order, the       *)
(* entries of phase 2 in plist order, the commit, the PostExec commands in *)
(* plist order, the message, the post-install lua script, pkg-install      *)
(* POST-INSTALL, the start of the services.                                *)
C33_HooksInOrder ==
    /\ \A i, j \in DOMAIN wlog :
          i < j =>
             \/ Rank(wlog[i]) < Rank(wlog[j])
             \/ /\ Rank(wlog[i]) = Rank(wlog[j])
                /\ wlog[i].at > 0
                /\ wlog[i].at < wlog[j].at
    /\ \A i \in DOMAIN wlog :
          wlog[i].at > 0 =>
             /\ wlog[i].at <= Len(PhaseList(wlog[i].phase))
             /\ wlog[i].entry = PhaseList(wlog[i].phase)[wlog[i].at]
             /\ wlog[i].phase = "PREINSTALL" => wlog[i].entry.type = "ASSET_PREEXEC"
             /\ wlog[i].entry.type = "ASSET_PREEXEC" => wlog[i].phase = "PREINSTALL"
             /\ wlog[i].entry.type = "ASSET_POSTEXEC" => wlog[i].phase = "POSTINSTALL"

(* C33 witness: an install with a PreExec command and a file has returned  *)
(* MPORT_OK: the log holds the three hooks of do_pre_install, the command, *)
(* the extraction, the commit and the four hooks of do_post_install.       *)
C33_Witness ==
    /\ wpc = "done"
    /\ wret = <<MPORT_OK>>
    /\ Len(wlog) = 10
    /\ wlog[4].entry.type = "ASSET_PREEXEC"
    /\ wlog[5].what = "extract"
    /\ wlog[6].what = "commit"
    /\ wlog[10].what = "service"

====
